---------------------------- MODULE Spec2Model ----------------------------
(***************************************************************************)
(* A model of the Cooklang recipe parser of pycook / pycooklang.           *)
(*                                                                         *)
(* Text is a sequence of one-character strings.  Offsets are the 0-based,  *)
(* half-open offsets of the Python code: text[s:e] is Slice(text, s, e).   *)
(* Python values (None, str, int, float) are records of one shape, PyNone, *)
(* PyStr, PyInt and PyFloat; a float is kept as an exact reduced fraction  *)
(* (binary rounding is not modelled).                                      *)
(***************************************************************************)
EXTENDS Integers, Sequences, FiniteSets, TLC

VARIABLES
    value,            \* _parse_number: the argument `value`
    fractions,        \* _parse_number: the argument `fractions`
    number,           \* the value returned by _parse_number(value, fractions)
    ingredient,       \* the Ingredient built from a match whose amount is `value`
    timer,            \* the Timer built from a match whose amount is `value`
    par,              \* _parse_step: the paragraph `text`
    step,             \* the Step returned by pycooklang's _parse_step(par)
    dsl,              \* the outcome of pycook.dsl's _parse_step(par)
    utl,              \* the outcome of pycook.utils.parse_timer(par)
    pc,               \* "parse" in the paragraph loop, "parsed" once parse has
                      \* returned, "called" after a method of the Recipe ran
    recipe,           \* the Recipe under construction / returned by parse
    current_section,  \* parse: the local current_section (index into sections)
    out,              \* the result list of the renderer called
    ingredients,      \* the value of the property recipe.ingredients
    cookware,         \* the value of the property recipe.cookware
    source,           \* parse: the argument `text`
    remaining_text,   \* parse: `text` once _parse_metadata has returned
    paragraphs,       \* parse: the list of _split_into_paragraphs
    index,            \* parse: the number of paragraphs the loop has taken
    calls,            \* the earlier calls of parse: text and outcome of each
    outputs,          \* the calls of renderers on the Recipe, in order
    reader            \* read_cook: its arguments, the file system it finds and
                      \* its outcome

numVars  == <<value, fractions, number, ingredient, timer>>
stepVars == <<par, step, dsl, utl>>
docVars  == <<pc, recipe, current_section, out, ingredients, cookware>>
parseVars == <<source, remaining_text, paragraphs, index, calls>>
vars     == <<value, fractions, number, ingredient, timer, par, step, dsl, utl,
              pc, recipe, current_section, out, ingredients, cookware,
              source, remaining_text, paragraphs, index, calls, outputs, reader>>

---------------------------------------------------------------------------
(* Bounds of the model.                                                    *)

MaxNumLen == 3
MaxPieces == 3
MaxTimerPieces == 3
MaxParagraphs == 3
MaxLines == 4
MaxCalls == 3
MaxRenders == 3

---------------------------------------------------------------------------
(* Characters and the character classes of the regular expressions.        *)

Digits  == {"0", "1", "2", "3", "4", "5", "6", "7", "8", "9"}
Letters == {"a", "b", "c", "d", "e", "f", "g", "h", "i", "j", "k", "l", "m", "n",
            "o", "p", "q", "r", "s", "t", "u", "v", "w", "x", "y", "z", "A", "B"}
Spaces  == {" ", "\n"}

IsDigit(c) == c \in Digits
IsAlpha(c) == c \in Letters
IsWord(c)  == c \in Digits \cup Letters \cup {"_"}
IsSpace(c) == c \in Spaces
IsNameChar(c)      == IsWord(c) \/ IsSpace(c) \/ c \in {"(", ")", "\\", "/", "-"}
IsAmountChar(c)    == IsDigit(c) \/ c \in {".", "/", "-"}
IsPercent(c)       == c = "%"
IsShorthandChar(c) == IsWord(c) \/ IsSpace(c)
IsNotNewline(c)    == c # "\n"

Ch(t, i)       == t[i + 1]
Slice(t, s, e) == SubSeq(t, s + 1, e)
Min(S)         == CHOOSE m \in S : \A n \in S : m <= n

\* The end of the longest run of characters satisfying P that starts at i.
RunEnd(t, i, P(_)) ==
    IF i >= Len(t) THEN i
    ELSE Min({j \in i..Len(t) : j = Len(t) \/ ~P(Ch(t, j))})

IsBlank(t) == \A i \in 1..Len(t) : IsSpace(t[i])

\* str.strip()
Strip(t) ==
    IF IsBlank(t) THEN <<>>
    ELSE SubSeq(t, Min({i \in 1..Len(t) : ~IsSpace(t[i])}),
                CHOOSE i \in 1..Len(t) :
                    /\ ~IsSpace(t[i])
                    /\ \A j \in (i + 1)..Len(t) : IsSpace(t[j]))

RECURSIVE Concat(_)
Concat(ss) == IF ss = <<>> THEN <<>> ELSE Head(ss) \o Concat(Tail(ss))

---------------------------------------------------------------------------
(* Python values.                                                          *)

RECURSIVE Gcd(_, _)
Gcd(a, b) == IF b = 0 THEN a ELSE Gcd(b, a % b)
Abs(n)    == IF n < 0 THEN -n ELSE n

PyNone   == [kind |-> "None",  s |-> <<>>, num |-> 0, den |-> 1]
PyStr(t) == [kind |-> "str",   s |-> t,    num |-> 0, den |-> 1]
PyInt(n) == [kind |-> "int",   s |-> <<>>, num |-> n, den |-> 1]
PyFloat(n, d) ==
    LET g == Gcd(Abs(n), Abs(d))
        sg == IF d < 0 THEN -1 ELSE 1
    IN  [kind |-> "float", s |-> <<>>, num |-> sg * (n \div g), den |-> sg * (d \div g)]
Raised   == [kind |-> "raise", s |-> <<>>, num |-> 0, den |-> 1]
NotCalled == [kind |-> "-",    s |-> <<>>, num |-> 0, den |-> 1]

\* Python truthiness of a value (None, "", 0 and 0.0 are false).
Truthy(v) ==
    CASE v.kind = "None"  -> FALSE
      [] v.kind = "str"   -> v.s # <<>>
      [] v.kind = "int"   -> v.num # 0
      [] v.kind = "float" -> v.num # 0
      [] OTHER            -> FALSE

\* Python ==, and the hash-set membership built on it: an int and a float of
\* the same numeric value are equal, a str equals only the same str.
PyEq(v, w) ==
    IF v.kind \in {"int", "float"} /\ w.kind \in {"int", "float"}
    THEN v.num * w.den = w.num * v.den
    ELSE v = w

---------------------------------------------------------------------------
(* int(), float() and _parse_number.                                       *)

DigitVal(c) ==
    CASE c = "0" -> 0 [] c = "1" -> 1 [] c = "2" -> 2 [] c = "3" -> 3
      [] c = "4" -> 4 [] c = "5" -> 5 [] c = "6" -> 6 [] c = "7" -> 7
      [] c = "8" -> 8 [] c = "9" -> 9

RECURSIVE DecValue(_)
DecValue(ds) ==
    IF ds = <<>> THEN 0
    ELSE 10 * DecValue(SubSeq(ds, 1, Len(ds) - 1)) + DigitVal(ds[Len(ds)])

RECURSIVE Pow10(_)
Pow10(n) == IF n = 0 THEN 1 ELSE 10 * Pow10(n - 1)

AllDigits(t) == \A i \in 1..Len(t) : IsDigit(t[i])
HasChar(t, c) == \E i \in 1..Len(t) : t[i] = c

Unsigned(t) == IF t # <<>> /\ t[1] = "-" THEN Tail(t) ELSE t
SignOf(t)   == IF t # <<>> /\ t[1] = "-" THEN -1 ELSE 1

\* int(str): an optional sign and one or more digits; anything else raises.
PyIntDigits(t, b) ==
    IF b # <<>> /\ AllDigits(b) THEN PyInt(SignOf(t) * DecValue(b)) ELSE Raised

PyIntOf(t) == PyIntDigits(t, Unsigned(t))

\* float(str): an optional sign, digits with at most one '.', at least one
\* digit; anything else raises.  ip and fp are the digits before and after
\* the first '.'.
PyFloatParts(t, ip, fp) ==
    IF AllDigits(ip) /\ AllDigits(fp) /\ Len(ip) + Len(fp) > 0
    THEN PyFloat(SignOf(t) * (DecValue(ip) * Pow10(Len(fp)) + DecValue(fp)),
                 Pow10(Len(fp)))
    ELSE Raised

PyFloatAt(t, b, d) == PyFloatParts(t, SubSeq(b, 1, d - 1), SubSeq(b, d + 1, Len(b)))

PyFloatUnsigned(t, b) ==
    PyFloatAt(t, b, IF HasChar(b, ".") THEN Min({i \in 1..Len(b) : b[i] = "."})
                    ELSE Len(b) + 1)

PyFloatOf(t) == PyFloatUnsigned(t, Unsigned(t))

\* float(num) / float(denom); a zero denominator raises ZeroDivisionError.
PyFloatDiv(a, b) ==
    IF a.kind = "raise" \/ b.kind = "raise" \/ b.num = 0 THEN Raised
    ELSE PyFloat(a.num * b.den, a.den * b.num)

\* value.split("/", 1) of a value that contains '/'
SplitAt(t, k) == <<SubSeq(t, 1, k - 1), SubSeq(t, k + 1, Len(t))>>
SplitSlash(t) == SplitAt(t, Min({i \in 1..Len(t) : t[i] = "/"}))

\* The body of the try block of _parse_number.
QuotientOf(parts) == PyFloatDiv(PyFloatOf(parts[1]), PyFloatOf(parts[2]))

ParseNumberTry(v, fr) ==
    IF fr /\ HasChar(v, "/")
    THEN QuotientOf(SplitSlash(v))
    ELSE IF HasChar(v, ".") THEN PyFloatOf(v) ELSE PyIntOf(v)

ParseNumber_NoExcept(v, fr) == ParseNumberTry(v, fr)

\* except Exception: return value
OrValue(r, v) == IF r.kind = "raise" THEN PyStr(v) ELSE r

ParseNumber(v, fr) == OrValue(ParseNumberTry(v, fr), v)

---------------------------------------------------------------------------
(* The regular expressions of CooklangParser, as the match each of them   *)
(* finds when it is tried at offset s of text t.  A match is a record of   *)
(* its span and its groups; a group that did not take part is PyNone.      *)

NoMatch == [start |-> -1, end |-> -1, name |-> PyNone, amount |-> PyNone,
            unit |-> PyNone, shorthand |-> PyNone, simple |-> PyNone, g1 |-> <<>>]

Group(t, s, e) == PyStr(Slice(t, s, e))

\* q name{amount%unit}(shorthand): every part is followed by a character
\* outside its own class, so each greedy run is the only way to match.
\* n1, a1, p1, u1 are the ends of the name, the amount, the '%' run and the
\* unit; h1 is the end of the shorthand if "(" follows the "}".
BracedGroups(q, required_name, t, s, n1, a1, p1, u1, h1, sh) ==
    IF /\ Ch(t, s) = q
       /\ required_name => n1 > s + 1
       /\ n1 < Len(t) /\ Ch(t, n1) = "{"
       /\ u1 < Len(t) /\ Ch(t, u1) = "}"
    THEN [start |-> s, end |-> IF sh THEN h1 + 1 ELSE u1 + 1,
          name |-> Group(t, s + 1, n1),
          amount |-> IF a1 > n1 + 1 THEN Group(t, n1 + 1, a1) ELSE PyNone,
          unit |-> IF u1 > p1 THEN Group(t, p1, u1) ELSE PyNone,
          shorthand |-> IF sh THEN Group(t, u1 + 2, h1) ELSE PyNone,
          simple |-> PyNone, g1 |-> <<>>]
    ELSE NoMatch

HasShorthand(t, e0, h1) ==
    /\ e0 < Len(t) /\ Ch(t, e0) = "("
    /\ h1 > e0 + 1
    /\ h1 < Len(t) /\ Ch(t, h1) = ")"

BracedShorthand(q, required_name, t, s, n1, a1, p1, u1, h1) ==
    BracedGroups(q, required_name, t, s, n1, a1, p1, u1, h1, HasShorthand(t, u1 + 1, h1))

BracedUnit(q, required_name, t, s, n1, a1, p1, u1) ==
    BracedShorthand(q, required_name, t, s, n1, a1, p1, u1,
                    RunEnd(t, u1 + 2, IsShorthandChar))

BracedPercent(q, required_name, t, s, n1, a1, p1) ==
    BracedUnit(q, required_name, t, s, n1, a1, p1, RunEnd(t, p1, IsAlpha))

BracedAmount(q, required_name, t, s, n1, a1) ==
    BracedPercent(q, required_name, t, s, n1, a1, RunEnd(t, a1, IsPercent))

BracedName(q, required_name, t, s, n1) ==
    BracedAmount(q, required_name, t, s, n1, RunEnd(t, n1 + 1, IsAmountChar))

BracedMatch(q, required_name, t, s) ==
    BracedName(q, required_name, t, s, RunEnd(t, s + 1, IsNameChar))

\* q\w+
SimpleWord(q, t, s, w1) ==
    IF Ch(t, s) = q /\ w1 > s + 1
    THEN [NoMatch EXCEPT !.start = s, !.end = w1, !.simple = Group(t, s + 1, w1)]
    ELSE NoMatch

SimpleMatch(q, t, s) == SimpleWord(q, t, s, RunEnd(t, s + 1, IsWord))

GetMatchingRegex_BracedOnly(q, required_name, also_simple, t, s) ==
    BracedMatch(q, required_name, t, s)

FirstAlternative(b, q, also_simple, t, s) ==
    IF b # NoMatch THEN b
    ELSE IF also_simple THEN SimpleMatch(q, t, s) ELSE NoMatch

\* The pattern _get_matching_regex builds: the braced form, then the simple one.
GetMatchingRegex(q, required_name, also_simple, t, s) ==
    FirstAlternative(BracedMatch(q, required_name, t, s), q, also_simple, t, s)

\* --(.*)$ with re.MULTILINE
CommentInlineTo(t, s, e) ==
    IF s + 1 < Len(t) /\ Ch(t, s) = "-" /\ Ch(t, s + 1) = "-"
    THEN [NoMatch EXCEPT !.start = s, !.end = e, !.g1 = Slice(t, s + 2, e)]
    ELSE NoMatch

CommentInlineMatch(t, s) == CommentInlineTo(t, s, RunEnd(t, s + 2, IsNotNewline))

\* \[-\s*(.*?)\s*-\] with re.DOTALL: up to the first "-]" after the "[-";
\* group 1 has no leading and no trailing white space.
CommentBlockTo(t, s, closes) ==
    IF s + 1 < Len(t) /\ Ch(t, s) = "[" /\ Ch(t, s + 1) = "-" /\ closes # {}
    THEN [NoMatch EXCEPT !.start = s, !.end = Min(closes) + 2,
                         !.g1 = Strip(Slice(t, s + 2, Min(closes)))]
    ELSE NoMatch

CommentBlockMatch(t, s) ==
    CommentBlockTo(t, s, {k \in (s + 2)..(Len(t) - 2) :
                             Ch(t, k) = "-" /\ Ch(t, k + 1) = "]"})

\* ^>\s*(.*)$ with re.MULTILINE; \s* also runs over line breaks.
NoteTo(t, s, w, e) ==
    IF Ch(t, s) = ">" /\ (s = 0 \/ Ch(t, s - 1) = "\n")
    THEN [NoMatch EXCEPT !.start = s, !.end = e, !.g1 = Slice(t, w, e)]
    ELSE NoMatch

NoteFrom(t, s, w) == NoteTo(t, s, w, RunEnd(t, w, IsNotNewline))

NoteMatch(t, s) == NoteFrom(t, s, RunEnd(t, s + 1, IsSpace))

\* The arguments _setup_regex gives _get_matching_regex, by pattern.
Qualifier(pattern) ==
    CASE pattern = "ingredient_pattern" -> "@"
      [] pattern = "cookware_pattern"   -> "#"
      [] pattern = "timer_pattern"      -> "~"
IsTimerPattern(pattern) == pattern = "timer_pattern"

\* The patterns _setup_regex compiles, by name.
PatternMatch(pattern, t, s) ==
    CASE pattern \in {"ingredient_pattern", "cookware_pattern", "timer_pattern"} ->
             GetMatchingRegex(Qualifier(pattern), ~IsTimerPattern(pattern),
                              ~IsTimerPattern(pattern), t, s)
      [] pattern = "comment_inline_pattern" -> CommentInlineMatch(t, s)
      [] pattern = "comment_block_pattern"  -> CommentBlockMatch(t, s)
      [] pattern = "note_pattern"           -> NoteMatch(t, s)

\* pattern.finditer(t): the leftmost match, then on from its end.
RECURSIVE FindIter(_, _, _)
FindNext(pattern, t, pos, m) ==
    IF m # NoMatch THEN <<m>> \o FindIter(pattern, t, m.end)
    ELSE FindIter(pattern, t, pos + 1)

FindIter(pattern, t, pos) ==
    IF pos >= Len(t) THEN <<>>
    ELSE FindNext(pattern, t, pos, PatternMatch(pattern, t, pos))

---------------------------------------------------------------------------
(* The payloads and the tokens of pycooklang.                              *)

Ingredient(name, quantity, unit, preparation) ==
    [cls |-> "Ingredient", name |-> name, quantity |-> quantity, unit |-> unit,
     preparation |-> preparation]
Cookware(name, quantity) == [cls |-> "Cookware", name |-> name, quantity |-> quantity]
Timer(name, duration, unit) ==
    [cls |-> "Timer", name |-> name, duration |-> duration, unit |-> unit]
Comment(text, is_block) == [cls |-> "Comment", text |-> text, is_block |-> is_block]
Note(text) == [cls |-> "Note", text |-> text]
NoData     == [cls |-> "NoneType"]

\* group(g) if group(g) else None
OrNone(g) == IF Truthy(g) THEN g ELSE PyNone

CreateIngredientFromMatch_Fractions(m) ==
    IF Truthy(m.simple)
    THEN Ingredient(PyStr(Strip(m.simple.s)), PyNone, PyNone, PyNone)
    ELSE Ingredient(PyStr(Strip(m.name.s)),
                    IF Truthy(OrNone(m.amount)) THEN ParseNumber(m.amount.s, TRUE)
                                                ELSE PyNone,
                    OrNone(m.unit), m.shorthand)

CreateIngredientFromMatch(m) ==
    IF Truthy(m.simple)
    THEN Ingredient(PyStr(Strip(m.simple.s)), PyNone, PyNone, PyNone)
    ELSE Ingredient(PyStr(Strip(m.name.s)),
                    IF Truthy(OrNone(m.amount)) THEN ParseNumber(m.amount.s, FALSE)
                                                ELSE PyNone,
                    OrNone(m.unit), m.shorthand)

CreateCookwareFromMatch(m) ==
    IF Truthy(m.simple)
    THEN Cookware(PyStr(Strip(m.simple.s)), PyNone)
    ELSE Cookware(PyStr(Strip(m.name.s)), OrNone(m.amount))

CreateTimerFromMatch(m) ==
    Timer(IF Truthy(m.name) THEN PyStr(Strip(m.name.s)) ELSE PyNone,
          IF Truthy(OrNone(m.amount)) THEN ParseNumber(m.amount.s, FALSE) ELSE PyNone,
          OrNone(m.unit))

Token(type, text, start_pos, end_pos, data) ==
    [type |-> type, text |-> text, start_pos |-> start_pos, end_pos |-> end_pos,
     data |-> data]
TextToken(text, start_pos, end_pos) == Token("TextToken", text, start_pos, end_pos, NoData)

---------------------------------------------------------------------------
(* CooklangParser._parse_step                                              *)

\* An entry of all_matches: (match.start(), match.end(), data, match.group(0))
Entry(t, m, data) ==
    [start |-> m.start, end |-> m.end, data |-> data, text |-> Slice(t, m.start, m.end)]

PatternData_NoneForEmptyTimer(pattern, m) ==
    CASE pattern = "ingredient_pattern"     -> CreateIngredientFromMatch(m)
      [] pattern = "cookware_pattern"       -> CreateCookwareFromMatch(m)
      [] pattern = "timer_pattern"          ->
            IF Truthy(m.amount) THEN CreateTimerFromMatch(m) ELSE NoData
      [] pattern = "note_pattern"           -> Note(Strip(m.g1))
      [] pattern = "comment_inline_pattern" -> Comment(Strip(m.g1), FALSE)
      [] pattern = "comment_block_pattern"  -> Comment(Strip(m.g1), TRUE)

PatternData(pattern, m) ==
    CASE pattern = "ingredient_pattern"     -> CreateIngredientFromMatch(m)
      [] pattern = "cookware_pattern"       -> CreateCookwareFromMatch(m)
      [] pattern = "timer_pattern"          -> CreateTimerFromMatch(m)
      [] pattern = "note_pattern"           -> Note(Strip(m.g1))
      [] pattern = "comment_inline_pattern" -> Comment(Strip(m.g1), FALSE)
      [] pattern = "comment_block_pattern"  -> Comment(Strip(m.g1), TRUE)

EntriesOf(pattern, t, ms) ==
    [k \in 1..Len(ms) |-> Entry(t, ms[k], PatternData(pattern, ms[k]))]

\* One of the six finditer loops of _parse_step.
Entries(pattern, t) == EntriesOf(pattern, t, FindIter(pattern, t, 0))

\* The order in which the six loops run.
PatternOrder ==
    <<"ingredient_pattern", "cookware_pattern", "timer_pattern", "note_pattern",
      "comment_inline_pattern", "comment_block_pattern">>

\* all_matches in the order the six loops append to it
CollectMatches(t) == Concat([i \in 1..Len(PatternOrder) |-> Entries(PatternOrder[i], t)])

\* list.sort(key=lambda x: x[0]): stable, ascending by start
RECURSIVE InsertByStart(_, _)
InsertByStart(sorted, e) ==
    IF sorted = <<>> THEN <<e>>
    ELSE IF sorted[Len(sorted)].start <= e.start THEN Append(sorted, e)
    ELSE Append(InsertByStart(SubSeq(sorted, 1, Len(sorted) - 1), e), sorted[Len(sorted)])

SortByStart_Unsorted(es) == es

RECURSIVE SortByStart(_)
SortByStart(es) ==
    IF es = <<>> THEN <<>>
    ELSE InsertByStart(SortByStart(SubSeq(es, 1, Len(es) - 1)), es[Len(es)])

AllMatches(t) == SortByStart(CollectMatches(t))

\* The isinstance chain that wraps a payload into its token.
TokenOf(e) ==
    CASE e.data.cls = "Ingredient" -> Token("IngredientToken", e.text, e.start, e.end, e.data)
      [] e.data.cls = "Cookware"   -> Token("CookwareToken", e.text, e.start, e.end, e.data)
      [] e.data.cls = "Timer"      -> Token("TimerToken", e.text, e.start, e.end, e.data)
      [] e.data.cls = "Comment"    -> Token("CommentToken", e.text, e.start, e.end, e.data)
      [] e.data.cls = "Note"       -> Token("NoteToken", e.text, e.start, e.end, e.data)
      [] OTHER                     -> Token("ValueError", e.text, e.start, e.end, e.data)

GapToken_ShortEnd(t, from, to) ==
    IF from < to /\ ~IsBlank(Slice(t, from, to))
    THEN <<TextToken(Slice(t, from, to), from, to - 1)>>
    ELSE <<>>

GapToken_KeepsBlank(t, from, to) ==
    IF from < to THEN <<TextToken(Slice(t, from, to), from, to)>> ELSE <<>>

\* A text token for text[from:to] unless it is empty or only white space.
GapToken(t, from, to) ==
    IF from < to /\ ~IsBlank(Slice(t, from, to))
    THEN <<TextToken(Slice(t, from, to), from, to)>>
    ELSE <<>>

\* The token loop from entry k on, with the cursor at `position`, and the
\* remaining text after the last entry.
RECURSIVE BuildTokens(_, _, _, _)
BuildTokens(t, es, k, position) ==
    IF k > Len(es) THEN GapToken(t, position, Len(t))
    ELSE GapToken(t, position, es[k].start) \o <<TokenOf(es[k])>>
           \o BuildTokens(t, es, k + 1, es[k].end)

Step(tokens, section) == [tokens |-> tokens, section |-> section]
NoSection == 0

ParseStep(t) == Step(BuildTokens(t, AllMatches(t), 1, 0), NoSection)

\* Step.text
StepText(s) == Concat([k \in 1..Len(s.tokens) |-> s.tokens[k].text])

---------------------------------------------------------------------------
(* pycook.dsl: the same tokenizer, but its timer pattern keeps the simple  *)
(* alternative and _create_timer_from_match raises on it.                  *)

DslTimerMatch(t, s) == GetMatchingRegex("~", FALSE, TRUE, t, s)

RECURSIVE DslFindTimers(_, _)
DslFindNext(t, pos, m) ==
    IF m # NoMatch THEN <<m>> \o DslFindTimers(t, m.end)
    ELSE DslFindTimers(t, pos + 1)

DslFindTimers(t, pos) ==
    IF pos >= Len(t) THEN <<>>
    ELSE DslFindNext(t, pos, DslTimerMatch(t, pos))

ValueError == [cls |-> "ValueError"]

DslCreateTimerFromMatch(m) ==
    IF Truthy(m.simple) THEN ValueError ELSE CreateTimerFromMatch(m)

DslTimerEntriesOf(t, ms) ==
    [k \in 1..Len(ms) |-> Entry(t, ms[k], DslCreateTimerFromMatch(ms[k]))]

DslTimerEntries(t) == DslTimerEntriesOf(t, DslFindTimers(t, 0))

DslEntries(pattern, t) ==
    IF pattern = "timer_pattern" THEN DslTimerEntries(t) ELSE Entries(pattern, t)

DslCollectMatches(t) ==
    Concat([i \in 1..Len(PatternOrder) |-> DslEntries(PatternOrder[i], t)])

Outcome(raised, tokens) == [called |-> TRUE, raised |-> raised, tokens |-> tokens]
NoOutcome == [called |-> FALSE, raised |-> FALSE, tokens |-> <<>>]

\* pycook.dsl CooklangParser._parse_step: an exception of
\* _create_timer_from_match leaves the method before any token is built.
DslParseMatches(t, es) ==
    IF \E k \in 1..Len(es) : es[k].data = ValueError
    THEN Outcome(TRUE, <<>>)
    ELSE Outcome(FALSE, BuildTokens(t, SortByStart(es), 1, 0))

DslParseStep(t) == DslParseMatches(t, DslCollectMatches(t))

---------------------------------------------------------------------------
(* pycook.utils.parse_stuff with control_char = Timer (parse_timer).       *)

UnitsMembers ==
    {<<"g","r","a","m">>, <<"k","i","l","o","g","r","a","m">>,
     <<"m","i","l","l","i","g","r","a","m">>, <<"l","i","t","e","r">>,
     <<"m","i","l","l","i","l","i","t","e","r">>, <<"s","e","c","o","n","d">>,
     <<"m","i","n","u","t","e">>, <<"h","o","u","r">>, <<"p","i","n","c","h">>,
     <<"t","e","a","s","p","o","o","n">>, <<"t","a","b","l","e","s","p","o","o","n">>,
     <<"c","a","n">>, <<"c","l","o","v","e">>, <<"l","e","a","v","e">>,
     <<"p","a","c","k">>, <<"p","o","d">>}
UnitsValues ==
    {<<"g">>, <<"k","g">>, <<"m","g">>, <<"l">>, <<"m","l">>, <<"s">>,
     <<"m","i","n">>, <<"h">>, <<"p","i","n","c","h">>, <<"t","s","p">>,
     <<"t","b","s","p">>, <<"c","a","n">>, <<"c","l","o","v","e">>,
     <<"l","e","a","v","e">>, <<"p","a","c","k">>, <<"p","o","d">>}

Lower(c) == CASE c = "A" -> "a" [] c = "B" -> "b" [] OTHER -> c

\* create_unit: TRUE when the unit string names a member or a value of Units.
WithoutPluralS(low) ==
    IF Len(low) > 1 /\ low[Len(low)] = "s" THEN SubSeq(low, 1, Len(low) - 1) ELSE low

CreateUnitOk(unit_str) ==
    WithoutPluralS([i \in 1..Len(unit_str) |-> Lower(unit_str[i])])
        \in UnitsMembers \cup UnitsValues

IsUtilsNameChar(c)   == IsSpace(c) \/ IsWord(c) \/ c \in {"+", "_", "(", ")", "-"}
IsUtilsAmountChar(c) == IsDigit(c) \/ c \in {"/", "."}

\* (?:~((?:[\s+\w+_()-])*)\s*\{((?:[\d\/.]+)?)%?((?:\w+))?\})|(?:~(\w+))
\* n1, a1, p1, u1 are the ends of the name, the amount, the optional '%' and
\* the unit of the first alternative, w1 the end of the word of the second.
UtilsGroups(t, s, n1, a1, p1, u1, w1) ==
    IF Ch(t, s) # "~" THEN NoMatch
    ELSE IF /\ n1 < Len(t) /\ Ch(t, n1) = "{"
            /\ u1 < Len(t) /\ Ch(t, u1) = "}"
    THEN [NoMatch EXCEPT !.start = s, !.end = u1 + 1,
                         !.name = Group(t, s + 1, n1),
                         !.amount = Group(t, n1 + 1, a1),
                         !.unit = IF u1 > p1 THEN Group(t, p1, u1) ELSE PyNone]
    ELSE IF w1 > s + 1
    THEN [NoMatch EXCEPT !.start = s, !.end = w1, !.simple = Group(t, s + 1, w1)]
    ELSE NoMatch

UtilsPercent(t, s, n1, a1, p1) ==
    UtilsGroups(t, s, n1, a1, p1, RunEnd(t, p1, IsWord), RunEnd(t, s + 1, IsWord))

UtilsAmount(t, s, n1, a1) ==
    UtilsPercent(t, s, n1, a1, IF a1 < Len(t) /\ Ch(t, a1) = "%" THEN a1 + 1 ELSE a1)

UtilsName(t, s, n1) == UtilsAmount(t, s, n1, RunEnd(t, n1 + 1, IsUtilsAmountChar))

UtilsMatch(t, s) == UtilsName(t, s, RunEnd(t, s + 1, IsUtilsNameChar))

RECURSIVE UtilsFindIter(_, _)
UtilsFindNext(t, pos, m) ==
    IF m # NoMatch THEN <<m>> \o UtilsFindIter(t, m.end)
    ELSE UtilsFindIter(t, pos + 1)

UtilsFindIter(t, pos) ==
    IF pos >= Len(t) THEN <<>>
    ELSE UtilsFindNext(t, pos, UtilsMatch(t, pos))

\* _divide_fraction: exactly one '/', both parts floats, a non-zero denominator.
DivideParts(parts) ==
    IF HasChar(parts[2], "/") THEN Raised
    ELSE PyFloatDiv(PyFloatOf(parts[1]), PyFloatOf(parts[2]))

DivideFraction(q) == DivideParts(SplitSlash(q))

\* The quantity of a braced match: None, a number, or an exception.
UtilsQuantity(m) ==
    IF ~Truthy(m.amount) THEN PyNone
    ELSE IF HasChar(m.amount.s, "/") THEN DivideFraction(m.amount.s)
    ELSE IF HasChar(m.amount.s, ".") THEN PyFloatOf(m.amount.s)
    ELSE PyIntOf(m.amount.s)

\* What the loop body of parse_stuff does with one match of the timer
\* pattern: "skip" (continue), "Timer" (appended) or "raise".  types.Timer
\* needs a Unit, so only a quantity with a known unit builds one.
UtilsTimerOf_OptionalUnit(quantity, unit) ==
    IF quantity = Raised THEN "raise"
    ELSE IF unit # PyNone /\ quantity # PyNone /\ ~CreateUnitOk(unit.s) THEN "raise"
    ELSE "Timer"

UtilsTimerOf(quantity, unit) ==
    IF quantity = Raised THEN "raise"
    ELSE IF unit # PyNone /\ quantity # PyNone /\ CreateUnitOk(unit.s)
    THEN "Timer"
    ELSE "raise"

UtilsTimerStep(m) ==
    IF Truthy(m.simple) THEN "skip"
    ELSE UtilsTimerOf(UtilsQuantity(m), OrNone(m.unit))

\* parse_timer: the spans of the Timers returned, unless a match raised.
ParseTimerMatches(ms, steps) ==
    IF \E k \in 1..Len(ms) : steps[k] = "raise"
    THEN Outcome(TRUE, <<>>)
    ELSE Outcome(FALSE, [k \in 1..Len(ms) |->
             [start_pos |-> ms[k].start, end_pos |-> ms[k].end,
              made |-> steps[k] = "Timer"]])

ParseTimerOf(ms) == ParseTimerMatches(ms, [k \in 1..Len(ms) |-> UtilsTimerStep(ms[k])])

ParseTimer(t) == ParseTimerOf(UtilsFindIter(t, 0))

---------------------------------------------------------------------------
(* Sections, CooklangParser.parse and the Recipe.                          *)

Section(title, level) == [title |-> title, level |-> level]

IsEq(c) == c = "="

\* u is white space followed by '=' characters only: \s*(=*)$
IsHeadingTail(u) ==
    \A i \in (RunEnd(u, 0, IsSpace) + 1)..Len(u) : u[i] = "="

\* section_pattern.match(p), ^(=+)\s*(.*?)\s*(=*)$ : the leading run of '=',
\* white space (line breaks too), the shortest title without a line break
\* that leaves only white space and '=' up to the end.
SectionMatch(p) ==
    LET k  == RunEnd(p, 0, IsEq)
        w1 == RunEnd(p, k, IsSpace)
        xs == {x \in w1..Len(p) :
                 /\ \A i \in (w1 + 1)..x : p[i] # "\n"
                 /\ IsHeadingTail(Slice(p, x, Len(p)))}
    IN  IF p # <<>> /\ p[1] = "=" /\ xs # {}
        THEN [matched |-> TRUE, level |-> k, title |-> Strip(Slice(p, w1, Min(xs)))]
        ELSE [matched |-> FALSE, level |-> 0, title |-> <<>>]

\* A Step's section is a reference to an entry of recipe.sections: its
\* position in that list, NoSection for None.  SectionOf is the value the
\* dataclass comparison of the renderers sees.
NoSectionValue == Section(<<"None">>, 0)
SectionOf(r, st) ==
    IF st.section = NoSection THEN NoSectionValue ELSE r.sections[st.section]

ParseParagraphMatch_FirstSection(r, cur, p, sm) ==
    IF sm.matched
    THEN [recipe |-> [r EXCEPT !.sections = Append(@, Section(sm.title, sm.level))],
          current_section |-> Len(r.sections) + 1]
    ELSE [recipe |-> [r EXCEPT !.steps =
                         Append(@, [ParseStep(p) EXCEPT
                                      !.section = IF cur = NoSection THEN cur ELSE 1])],
          current_section |-> cur]

ParseParagraphMatch_AlsoStep(r, cur, p, sm) ==
    [recipe |-> [r EXCEPT
                   !.sections = IF sm.matched
                                THEN Append(@, Section(sm.title, sm.level)) ELSE @,
                   !.steps = Append(@, [ParseStep(p) EXCEPT !.section = cur])],
     current_section |-> IF sm.matched THEN Len(r.sections) + 1 ELSE cur]

\* One iteration of the paragraph loop of parse, sm being the outcome of
\* section_pattern.match(paragraph).
ParseParagraphMatch(r, cur, p, sm) ==
    IF sm.matched
    THEN [recipe |-> [r EXCEPT !.sections = Append(@, Section(sm.title, sm.level))],
          current_section |-> Len(r.sections) + 1]
    ELSE [recipe |-> [r EXCEPT !.steps =
                         Append(@, [ParseStep(p) EXCEPT !.section = cur])],
          current_section |-> cur]

ParseParagraphResult(r, cur, p) == ParseParagraphMatch(r, cur, p, SectionMatch(p))

\* Step.ingredients, Step.cookware: the payloads of one token type, in order.
RECURSIVE Payloads(_, _)
Payloads(tokens, type) ==
    IF tokens = <<>> THEN <<>>
    ELSE (IF Head(tokens).type = type THEN <<Head(tokens).data>> ELSE <<>>)
           \o Payloads(Tail(tokens), type)

RECURSIVE AllPayloads(_, _)
AllPayloads(steps, type) ==
    IF steps = <<>> THEN <<>>
    ELSE Payloads(Head(steps).tokens, type) \o AllPayloads(Tail(steps), type)

SameIngredientKey_NameOnly(a, b) == a.name = b.name

\* The key of _deduplicate_ingredients, compared as Python compares tuples.
SameIngredientKey(a, b) ==
    /\ a.name = b.name /\ a.unit = b.unit /\ a.preparation = b.preparation
    /\ PyEq(a.quantity, b.quantity)

SameCookwareKey_WithQuantity(a, b) == a.name = b.name /\ a.quantity = b.quantity

\* The key of _deduplicate_cookware
SameCookwareKey(a, b) == a.name = b.name

\* _deduplicate_ingredients: the loop over the remaining items, with the
\* keys seen so far (kept as the items that carry them) and the result.
RECURSIVE DeduplicateIngredientsLoop(_, _, _)
DeduplicateIngredientsLoop(items, seen, result) ==
    IF items = <<>> THEN result
    ELSE IF \E k \in 1..Len(seen) : SameIngredientKey(seen[k], Head(items))
    THEN DeduplicateIngredientsLoop(Tail(items), seen, result)
    ELSE DeduplicateIngredientsLoop(Tail(items), Append(seen, Head(items)),
                                    Append(result, Head(items)))

DeduplicateIngredients(items) == DeduplicateIngredientsLoop(items, <<>>, <<>>)

RECURSIVE DeduplicateCookwareLoop(_, _, _)
DeduplicateCookwareLoop(items, seen, result) ==
    IF items = <<>> THEN result
    ELSE IF \E k \in 1..Len(seen) : SameCookwareKey(seen[k], Head(items))
    THEN DeduplicateCookwareLoop(Tail(items), seen, result)
    ELSE DeduplicateCookwareLoop(Tail(items), Append(seen, Head(items)),
                                 Append(result, Head(items)))

DeduplicateCookware(items) == DeduplicateCookwareLoop(items, <<>>, <<>>)

\* Recipe.ingredients, Recipe.cookware
RecipeIngredients(r) == DeduplicateIngredients(AllPayloads(r.steps, "IngredientToken"))
RecipeCookware(r)    == DeduplicateCookware(AllPayloads(r.steps, "CookwareToken"))

---------------------------------------------------------------------------
(* Front matter and paragraphs: _parse_metadata, yaml.safe_load on the     *)
(* blocks the inputs contain, _split_into_paragraphs.                      *)

Max(S) == CHOOSE m \in S : \A n \in S : m >= n

\* str.split("\n")
RECURSIVE SplitLines(_)
SplitLines(t) ==
    IF ~HasChar(t, "\n") THEN <<t>>
    ELSE <<Slice(t, 0, RunEnd(t, 0, IsNotNewline))>>
           \o SplitLines(Slice(t, RunEnd(t, 0, IsNotNewline) + 1, Len(t)))

\* "\n".join(lines)
JoinLines(lines) ==
    IF lines = <<>> THEN <<>>
    ELSE Head(lines) \o Concat([i \in 1..(Len(lines) - 1) |-> <<"\n">> \o lines[i + 1]])

\* while lines and not lines[0].strip(): lines.pop(0)
RECURSIVE DropLeadingBlank(_)
DropLeadingBlank(lines) ==
    IF lines # <<>> /\ Strip(Head(lines)) = <<>>
    THEN DropLeadingBlank(Tail(lines))
    ELSE lines

IsDelimiter(line) == Strip(line) = <<"-", "-", "-">>

\* The values yaml.safe_load returns and the value of recipe.metadata: a
\* mapping (with the value of its key "title", PyNone when it has none), a
\* list, a string, None.
YamlValue(kind, title) == [kind |-> kind, title |-> title, image |-> PyNone]
EmptyMapping == YamlValue("dict", PyNone)
YamlNone     == YamlValue("None", PyNone)
YAMLError    == [raised |-> TRUE,  value |-> YamlNone]
Loaded(v)    == [raised |-> FALSE, value |-> v]

\* The shape of one line of a YAML block: "key: value" is an entry of a
\* block mapping, "- value" an item of a block sequence, any other text
\* that is not blank a plain scalar.  Lines start in column 0.
YamlLineKind(line) ==
    IF IsBlank(line) THEN "blank"
    ELSE IF Len(line) >= 2 /\ line[1] = "-" /\ line[2] = " " THEN "item"
    ELSE IF \E i \in 2..(Len(line) - 1) : line[i] = ":" /\ line[i + 1] = " "
    THEN "entry"
    ELSE "plain"

RECURSIVE YamlLineKinds(_)
YamlLineKinds(lines) ==
    IF lines = <<>> THEN <<>>
    ELSE (IF YamlLineKind(Head(lines)) = "blank" THEN <<>>
          ELSE <<YamlLineKind(Head(lines))>>) \o YamlLineKinds(Tail(lines))

\* The key and the value of an entry line
EntryKey(line)   == Slice(line, 0, Min({i \in 1..Len(line) : line[i] = ":"}) - 1)
EntryValue(line) == Strip(Slice(line, Min({i \in 1..Len(line) : line[i] = ":"}), Len(line)))

\* dict.get("title") of the mapping the entry lines make: a later entry of
\* the same key replaces an earlier one.
RECURSIVE TitleOf(_, _)
TitleOf(lines, title) ==
    IF lines = <<>> THEN title
    ELSE IF YamlLineKind(Head(lines)) = "entry"
            /\ EntryKey(Head(lines)) = <<"t", "i", "t", "l", "e">>
    THEN TitleOf(Tail(lines), PyStr(EntryValue(Head(lines))))
    ELSE TitleOf(Tail(lines), title)

\* yaml.safe_load of a block whose non-blank lines have the kinds ks: no
\* line gives None; entries only a mapping; items only a list; plain text,
\* which runs on over item lines, a string; every other mixture is a
\* scanner or parser error.
SafeLoadKinds(lines, ks) ==
    IF ks = <<>> THEN Loaded(YamlNone)
    ELSE IF \A i \in 1..Len(ks) : ks[i] = "entry"
    THEN Loaded(YamlValue("dict", TitleOf(lines, PyNone)))
    ELSE IF \A i \in 1..Len(ks) : ks[i] = "item" THEN Loaded(YamlValue("list", PyNone))
    ELSE IF ks[1] = "plain" /\ \A i \in 1..Len(ks) : ks[i] # "entry"
    THEN Loaded(YamlValue("str", PyNone))
    ELSE YAMLError

SafeLoad(lines) == SafeLoadKinds(lines, YamlLineKinds(lines))

\* Python truthiness of a loaded value; the blocks of the inputs give no
\* empty mapping, list or string.
YamlTruthy(v) == v.kind # "None"

Metadata(text, metadata) == [text |-> text, metadata |-> metadata]

\* _parse_metadata once the closing delimiter was found at lines[end_idx]
\* (position end_idx + 1 of the sequence) and the block was loaded.
ParseMetadataLoaded(text, lines, end_idx, loaded) ==
    IF loaded.raised THEN Metadata(text, EmptyMapping)
    ELSE Metadata(Strip(JoinLines(SubSeq(lines, end_idx + 2, Len(lines)))),
                  IF YamlTruthy(loaded.value) THEN loaded.value ELSE EmptyMapping)

ParseMetadataEnds(text, lines, ends) ==
    IF ends = {} THEN Metadata(text, EmptyMapping)
    ELSE ParseMetadataLoaded(text, lines, Min(ends),
                             SafeLoad(SubSeq(lines, 2, Min(ends))))

ParseMetadataLines_JoinedLines(text, lines) ==
    IF lines # <<>> /\ IsDelimiter(lines[1])
    THEN ParseMetadataEnds(JoinLines(lines), lines,
                           {i \in 1..(Len(lines) - 1) : IsDelimiter(lines[i + 1])})
    ELSE Metadata(JoinLines(lines), EmptyMapping)

ParseMetadataLines(text, lines) ==
    IF lines # <<>> /\ IsDelimiter(lines[1])
    THEN ParseMetadataEnds(text, lines,
                           {i \in 1..(Len(lines) - 1) : IsDelimiter(lines[i + 1])})
    ELSE Metadata(text, EmptyMapping)

\* _parse_metadata(text)
ParseMetadata(text) == ParseMetadataLines(text, DropLeadingBlank(SplitLines(text)))

\* re.split(r"\n\s*\n", t): a separator starts at a line break that has
\* another line break in the white space after it and ends after the last
\* line break of that white space.
SeparatorStarts_EmptyLinesOnly(t, pos) ==
    {a \in pos..(Len(t) - 2) : Ch(t, a) = "\n" /\ Ch(t, a + 1) = "\n"}

SeparatorStarts(t, pos) ==
    {a \in pos..(Len(t) - 1) :
        /\ Ch(t, a) = "\n"
        /\ \E b \in (a + 1)..(RunEnd(t, a, IsSpace) - 1) : Ch(t, b) = "\n"}

SeparatorEnd(t, a) ==
    1 + Max({b \in (a + 1)..(RunEnd(t, a, IsSpace) - 1) : Ch(t, b) = "\n"})

RECURSIVE ReSplit(_, _)
ReSplitAt(t, pos, a) == <<Slice(t, pos, a)>> \o ReSplit(t, SeparatorEnd(t, a))
ReSplit(t, pos) ==
    IF SeparatorStarts(t, pos) = {} THEN <<Slice(t, pos, Len(t))>>
    ELSE ReSplitAt(t, pos, Min(SeparatorStarts(t, pos)))

\* [p.strip() for p in paragraphs if p.strip()]
RECURSIVE StripNonEmpty(_)
StripNonEmpty(ps) ==
    IF ps = <<>> THEN <<>>
    ELSE (IF Strip(Head(ps)) # <<>> THEN <<Strip(Head(ps))>> ELSE <<>>)
           \o StripNonEmpty(Tail(ps))

\* _split_into_paragraphs(text)
SplitIntoParagraphs(t) == StripNonEmpty(ReSplit(Strip(t), 0))

---------------------------------------------------------------------------
(* The renderers.  A renderer's result list is kept as the sequence of the *)
(* entries appended to it, each with the statement that appended it       *)
(* (kind), its text where the text is a heading or a fixed line, and the   *)
(* position of the section, step or list entry it was made from (ref).     *)
(* Every token renders to at least two characters of markup or to its own  *)
(* non-blank text, so the `if md:` test of to_markdown never drops a step. *)

Line(kind, text, ref) == [kind |-> kind, text |-> text, ref |-> ref]
BlankLine == Line("blank", <<>>, 0)

RECURSIVE Repeat(_, _)
Repeat(c, n) == IF n = 0 THEN <<>> ELSE <<c>> \o Repeat(c, n - 1)

MinOf(a, b) == IF a <= b THEN a ELSE b

MarkdownLevel_NoCap(r, sec) ==
    IF ~r.settings.ignore_section_depth THEN sec.level + 2 ELSE 3

\* section_level of to_markdown and to_html, and of to_latex
MarkdownLevel(r, sec) ==
    IF ~r.settings.ignore_section_depth THEN MinOf(sec.level + 2, 6) ELSE 3
LatexLevel(r, sec) ==
    IF ~r.settings.ignore_section_depth THEN MinOf(sec.level, 3) ELSE 1

DigitChar(n) == CASE n = 0 -> "0" [] n = 1 -> "1" [] n = 2 -> "2" [] n = 3 -> "3"
                  [] n = 4 -> "4" [] n = 5 -> "5" [] n = 6 -> "6" [] n = 7 -> "7"
                  [] n = 8 -> "8" [] n = 9 -> "9"

MarkdownHeading(r, i) ==
    Line("heading",
         Repeat("#", MarkdownLevel(r, r.sections[i])) \o <<" ">> \o r.sections[i].title, i)

HtmlHeading(r, i) ==
    LET n == DigitChar(MarkdownLevel(r, r.sections[i]))
    IN  Line("heading",
             <<"<", "h", n, ">">> \o r.sections[i].title \o <<"<", "/", "h", n, ">">>, i)

\* section_level_latex
SectionLevelLatex(n) ==
    CASE n = 1 -> <<"s","e","c","t","i","o","n">>
      [] n = 2 -> <<"s","u","b","s","e","c","t","i","o","n">>
      [] n = 3 -> <<"s","u","b","s","u","b","s","e","c","t","i","o","n">>

LatexHeading(r, i) ==
    Line("heading",
         <<"\\">> \o SectionLevelLatex(LatexLevel(r, r.sections[i])) \o <<"{">>
           \o r.sections[i].title \o <<"}", "\n">>, i)

Heading(fmt, r, i) ==
    CASE fmt = "markdown" -> MarkdownHeading(r, i)
      [] fmt = "html"     -> HtmlHeading(r, i)
      [] fmt = "latex"    -> LatexHeading(r, i)

\* The inner while loop: from current_section_index = idx - 1 (idx headings
\* emitted so far), emit headings until the current section equals the
\* step's section or the list is used up.
RECURSIVE AdvanceSections(_, _, _, _)
AdvanceSections(fmt, r, target, idx) ==
    IF (idx = 0 \/ r.sections[idx] # target) /\ idx + 1 <= Len(r.sections)
    THEN LET rest == AdvanceSections(fmt, r, target, idx + 1)
         IN  [lines |-> <<Heading(fmt, r, idx + 1)>> \o rest.lines, idx |-> rest.idx]
    ELSE [lines |-> <<>>, idx |-> idx]

StepLines(fmt, k) ==
    IF fmt = "markdown" THEN <<Line("step", <<>>, k), BlankLine>>
    ELSE <<Line("step", <<>>, k)>>

\* The for loop over self.steps from step k on.
RECURSIVE StepLoop(_, _, _, _)
StepLoop(fmt, r, k, idx) ==
    IF k > Len(r.steps) THEN [lines |-> <<>>, idx |-> idx]
    ELSE LET st   == r.steps[k]
             cur  == IF idx = 0 THEN NoSectionValue ELSE r.sections[idx]
             adv  == IF st.section # NoSection /\ SectionOf(r, st) # cur
                     THEN AdvanceSections(fmt, r, SectionOf(r, st), idx)
                     ELSE [lines |-> <<>>, idx |-> idx]
             heads == IF fmt = "markdown"
                      THEN Concat([i \in 1..Len(adv.lines) |-> <<adv.lines[i], BlankLine>>])
                      ELSE adv.lines
             rest == StepLoop(fmt, r, k + 1, adv.idx)
         IN  [lines |-> heads \o StepLines(fmt, k) \o rest.lines, idx |-> rest.idx]

RemainingSections_None(fmt, r, idx) == <<>>

\* The trailing while loop: the sections not emitted yet.
RemainingSections(fmt, r, idx) ==
    LET hs == [i \in 1..(Len(r.sections) - idx) |-> Heading(fmt, r, idx + i)]
    IN  IF fmt = "markdown"
        THEN Concat([i \in 1..Len(hs) |-> <<hs[i], BlankLine>>])
        ELSE hs

TitleText(r) == IF Truthy(r.title) THEN r.title.s ELSE <<"R","e","c","i","p","e">>

ListLines(kind, n) == [i \in 1..n |-> Line(kind, <<>>, i)]

\* Recipe.to_markdown() with its default arguments: the result list.
ToMarkdown(r) ==
    LET ings == RecipeIngredients(r)
        cook == RecipeCookware(r)
        loop == StepLoop("markdown", r, 1, 0)
    IN  (IF Truthy(r.title)
         THEN <<Line("title", <<"#", " ">> \o r.title.s, 0), BlankLine>> ELSE <<>>)
        \o (IF ings # <<>>
            THEN <<Line("h2", <<"#","#"," ","I","n","g","r","e","d","i","e","n","t","s">>, 0),
                   BlankLine>> \o ListLines("ingredient", Len(ings)) \o <<BlankLine>>
            ELSE <<>>)
        \o (IF cook # <<>>
            THEN <<Line("h2", <<"#","#"," ","E","q","u","i","p","m","e","n","t">>, 0),
                   BlankLine>> \o ListLines("cookware", Len(cook)) \o <<BlankLine>>
            ELSE <<>>)
        \o (IF r.sections # <<>> \/ r.steps # <<>>
            THEN <<Line("h2", <<"#","#"," ","I","n","s","t","r","u","c","t","i","o","n","s">>, 0),
                   BlankLine>>
            ELSE <<>>)
        \o (IF r.steps # <<>>
            THEN loop.lines \o RemainingSections("markdown", r, loop.idx)
            ELSE <<>>)

\* Recipe.to_html() without an image: the results list.
ToHtml(r) ==
    LET ings == RecipeIngredients(r)
        cook == RecipeCookware(r)
        loop == IF r.steps # <<>> THEN StepLoop("html", r, 1, 0)
                ELSE [lines |-> <<>>, idx |-> 0]
    IN  (IF Truthy(r.title)
         THEN <<Line("title", <<"<","h","1",">">> \o r.title.s \o <<"<","/","h","1",">">>, 0)>>
         ELSE <<>>)
        \o (IF Truthy(r.metadata.image) THEN <<Line("img", r.metadata.image.s, 0)>> ELSE <<>>)
        \o (IF ings # <<>>
            THEN <<Line("h2", <<"<","h","2",">","I","n","g","r","e","d","i","e","n","t","s",
                                "<","/","h","2",">">>, 0),
                   Line("ul", <<"<","u","l",">">>, 0)>>
                 \o ListLines("ingredient", Len(ings))
                 \o <<Line("ul", <<"<","/","u","l",">">>, 0)>>
            ELSE <<>>)
        \o (IF cook # <<>>
            THEN <<Line("h2", <<"<","h","2",">","E","q","u","i","p","m","e","n","t",
                                "<","/","h","2",">">>, 0),
                   Line("ul", <<"<","u","l",">">>, 0)>>
                 \o ListLines("cookware", Len(cook))
                 \o <<Line("ul", <<"<","/","u","l",">">>, 0)>>
            ELSE <<>>)
        \o (IF r.sections # <<>> \/ r.steps # <<>>
            THEN <<Line("h2", <<"<","h","2",">","I","n","s","t","r","u","c","t","i","o","n","s",
                                "<","/","h","2",">">>, 0)>>
            ELSE <<>>)
        \o loop.lines \o RemainingSections("html", r, loop.idx)

\* Recipe.to_latex(): the results list.
ToLatex(r) ==
    LET loop == StepLoop("latex", r, 1, 0)
    IN  <<Line("title", <<"\n","\\","b","e","g","i","n","{","r","e","c","i","p","e","}","{">>
                          \o TitleText(r) \o <<"}","{","}","\n","\n">>, 0)>>
        \o loop.lines \o RemainingSections("latex", r, loop.idx)
        \o <<Line("closing", <<"\\","e","n","d","{","r","e","c","i","p","e","}","\n",
                               "\\","c","l","e","a","r","d","o","u","b","l","e","p","a","g","e",
                               "\n","\n">>, 0)>>

\* Recipe.to_text(): the results list.
ToText(r) ==
    (IF Truthy(r.title) THEN <<Line("title", r.title.s, 0), BlankLine>> ELSE <<>>)
    \o Concat([k \in 1..Len(r.steps) |-> <<Line("step", <<>>, k), BlankLine>>])

Formats == {"markdown", "html", "latex", "text"}

RenderTo(fmt, r) ==
    CASE fmt = "markdown" -> ToMarkdown(r)
      [] fmt = "html"     -> ToHtml(r)
      [] fmt = "latex"    -> ToLatex(r)
      [] fmt = "text"     -> ToText(r)

---------------------------------------------------------------------------
(* What the payloads and the tokens render to: str() of a payload, the      *)
(* to_plain_text and to_latex methods of the tokens and of a Step.  The     *)
(* floats a tokenizer amount can give are decimal literals, so their        *)
(* denominators divide a power of ten; the sign of a zero float is not kept.*)

RECURSIVE NatDigits(_)
NatDigits(n) ==
    IF n < 10 THEN <<DigitChar(n)>> ELSE NatDigits(n \div 10) \o <<DigitChar(n % 10)>>

IntStr(n) == IF n < 0 THEN <<"-">> \o NatDigits(-n) ELSE NatDigits(n)

\* The number of decimal places of a fraction with denominator den.
RECURSIVE Places(_, _)
Places(den, k) == IF Pow10(k) % den = 0 THEN k ELSE Places(den, k + 1)

PadZeros(ds, k) == Repeat("0", k - Len(ds)) \o ds

FloatPlaces(n, den, k) ==
    NatDigits(n \div den) \o <<".">> \o PadZeros(NatDigits((n % den) * (Pow10(k) \div den)), k)

FloatStr(num, den) ==
    (IF num < 0 THEN <<"-">> ELSE <<>>) \o FloatPlaces(Abs(num), den, Places(den, 1))

\* str(v), as an f-string formats a value
PyStrOf(v) ==
    CASE v.kind = "str"   -> v.s
      [] v.kind = "int"   -> IntStr(v.num)
      [] v.kind = "float" -> FloatStr(v.num, v.den)
      [] v.kind = "None"  -> <<"N", "o", "n", "e">>

\* v or ''
OrEmpty(v) == IF Truthy(v) THEN v.s ELSE <<>>

\* str.replace("  ", " "): one pass from the left, matches do not overlap
RECURSIVE ReplaceDoubleSpace(_)
ReplaceDoubleSpace(t) ==
    IF Len(t) < 2 THEN t
    ELSE IF t[1] = " " /\ t[2] = " " THEN <<" ">> \o ReplaceDoubleSpace(SubSeq(t, 3, Len(t)))
    ELSE <<t[1]>> \o ReplaceDoubleSpace(Tail(t))

\* Ingredient.__str__
IngredientStr(i) ==
    ReplaceDoubleSpace(
        (IF Truthy(i.quantity)
         THEN Strip(PyStrOf(i.quantity) \o <<" ">> \o OrEmpty(i.unit) \o <<" ">> \o i.name.s)
         ELSE i.name.s)
        \o (IF Truthy(i.preparation)
            THEN <<" ", "(">> \o i.preparation.s \o <<")">> ELSE <<>>))

\* Cookware.__str__
CookwareStr(c) ==
    IF Truthy(c.quantity) THEN PyStrOf(c.quantity) \o <<" ">> \o c.name.s ELSE c.name.s

\* Timer.__str__
TimerStr(tm) ==
    IF Truthy(tm.duration)
    THEN Strip(PyStrOf(tm.duration) \o <<" ">> \o OrEmpty(tm.unit)) ELSE <<>>

\* to_plain_text of the six token classes
ToPlainText(token) ==
    CASE token.type = "TextToken"       -> token.text
      [] token.type = "IngredientToken" -> IngredientStr(token.data)
      [] token.type = "CookwareToken"   -> CookwareStr(token.data)
      [] token.type = "TimerToken"      -> TimerStr(token.data)
      [] token.type = "CommentToken"    -> <<>>
      [] token.type = "NoteToken"       -> token.data.text

\* Step.to_plain_text
StepToPlainText(s) == Concat([k \in 1..Len(s.tokens) |-> ToPlainText(s.tokens[k])])

\* Ingredient.to_latex
IngredientToLatex(i) ==
    <<"\\", "i", "n", "g", "r", "e", "d", "i", "e", "n", "t", "[">> \o PyStrOf(i.quantity)
      \o <<"]", "{">> \o OrEmpty(i.unit) \o <<"}", "{">> \o i.name.s \o <<"}">>

Textbf(t) == <<"\\", "t", "e", "x", "t", "b", "f", "{">> \o t \o <<"}">>
Textit(t) == <<"\\", "t", "e", "x", "t", "i", "t", "{">> \o t \o <<"}">>

\* str.replace("\n", " ")
NewlinesToSpaces(t) == [i \in 1..Len(t) |-> IF t[i] = "\n" THEN " " ELSE t[i]]

\* to_latex of the six token classes
TokenToLatex(token) ==
    CASE token.type = "TextToken" -> token.text
      [] token.type = "IngredientToken" ->
            Textbf(IF Truthy(token.data.quantity)
                   THEN Strip(token.data.name.s \o <<" ">> \o PyStrOf(token.data.quantity)
                                \o <<" ">> \o OrEmpty(token.data.unit))
                   ELSE token.data.name.s)
      [] token.type = "CookwareToken" ->
            Textit(IF Truthy(token.data.quantity)
                   THEN PyStrOf(token.data.quantity) \o <<" ">> \o token.data.name.s
                   ELSE token.data.name.s)
      [] token.type = "TimerToken" ->
            Strip(Textbf(PyStrOf(token.data.duration) \o <<" ">> \o OrEmpty(token.data.unit)))
      [] token.type = "CommentToken" ->
            IF token.data.is_block
            THEN <<"%", " ">> \o NewlinesToSpaces(token.data.text)
            ELSE Textit(<<"(">> \o token.data.text \o <<")">>)
      [] token.type = "NoteToken" ->
            <<"\\", "b", "e", "g", "i", "n", "{", "q", "u", "o", "t", "e", "}", "\n">>
              \o token.data.text
              \o <<"\n", "\\", "e", "n", "d", "{", "q", "u", "o", "t", "e", "}">>

\* The positions of the ingredient tokens of a step, in token order
\* (Step.ingredients).
RECURSIVE IngredientPositions(_, _)
IngredientPositions(tokens, k) ==
    IF k > Len(tokens) THEN <<>>
    ELSE (IF tokens[k].type = "IngredientToken" THEN <<k>> ELSE <<>>)
           \o IngredientPositions(tokens, k + 1)

StepLatexPieces_NotHoisted(s) ==
    [k \in 1..Len(s.tokens) |-> Line("token", TokenToLatex(s.tokens[k]), k)]

\* Step.to_latex: the list `text`, each entry with the loop that appended it
\* (kind) and the position of the token it was made from (ref).
StepLatexPiecesAt(s, positions) ==
    Concat([n \in 1..Len(positions) |->
              <<Line("ingredient", IngredientToLatex(s.tokens[positions[n]].data),
                     positions[n]),
                Line("newline", <<"\n">>, positions[n])>>])
    \o [k \in 1..Len(s.tokens) |-> Line("token", TokenToLatex(s.tokens[k]), k)]

StepLatexPieces(s) == StepLatexPiecesAt(s, IngredientPositions(s.tokens, 1))

\* "".join(text) + "\n\n"
JoinPieces(pieces) == Concat([n \in 1..Len(pieces) |-> pieces[n].text])
StepToLatex(s) == JoinPieces(StepLatexPieces(s)) \o <<"\n", "\n">>

---------------------------------------------------------------------------
(* Inputs.                                                                 *)

\* All sequences of 0..n elements of S.
SeqsUpTo(S, n) == UNION {[1..k -> S] : k \in 0..n}

\* A paragraph as parse hands it to _parse_step: a piece between two matches
\* of \n\s*\n of the stripped text, stripped again and not empty.
IsParagraph(t) ==
    /\ t # <<>>
    /\ ~IsSpace(t[1]) /\ ~IsSpace(t[Len(t)])
    /\ \A i \in 1..Len(t) : \A j \in (i + 1)..Len(t) :
           ~(t[i] = "\n" /\ t[j] = "\n" /\ IsBlank(SubSeq(t, i, j)))

NumAlphabet == {"0", "1", "2", "3", "5", ".", "/", "-", "a"}
NumInputs ==
    SeqsUpTo(NumAlphabet, MaxNumLen)
      \cup {<<"a", "b", "c">>, <<"1", ".", "2", ".", "3">>, <<"1", "-", "2">>}

Pieces ==
    {<<"x">>, <<" ">>, <<"\n">>, <<"@", "a">>, <<"#", "a">>, <<"~">>,
     <<"{", "}">>, <<"{", "1", "%", "g", "}">>, <<"{", "0", "}">>, <<"(", "b", ")">>,
     <<"-", "-">>, <<"[", "-">>, <<"-", "]">>, <<">">>}
ParagraphInputs ==
    {t \in {Concat(ps) : ps \in SeqsUpTo(Pieces, MaxPieces)} : IsParagraph(t)}

\* Paragraphs of a recipe text: headings of depth 1, 2 and 5 and steps that
\* repeat an ingredient or a piece of cookware with the same or another
\* amount.
DocParagraphs ==
    {<<"=", "A">>, <<"=", "=", "B">>, <<"=", "=", "=", "=", "=", "C">>, <<"x">>, <<"@", "a">>, <<"@", "b">>,
     <<"@", "a", "{", "1", "}">>, <<"@", "a", "{", "1", ".", "0", "}">>,
     <<"#", "p", "{", "1", "}">>, <<"#", "p", "{", "2", "}">>}
Titles == {PyNone, PyStr(<<"T">>)}

\* Lines of a recipe text: the front-matter delimiter, an empty and a
\* white-space line, a mapping entry, a list item, a line of plain text and
\* a heading with a trailing marker.
TextLines ==
    {<<"-", "-", "-">>, <<>>, <<" ">>, <<"t", "i", "t", "l", "e", ":", " ", "T">>,
     <<"-", " ", "b">>, <<"x">>, <<"=", "=", "B", "=">>}
TextInputs ==
    {JoinLines(ls) : ls \in UNION {[1..k -> TextLines] : k \in 1..MaxLines}}

\* The texts of repeated calls: with and without front matter, with a
\* heading, with a block that is no mapping.
CallTexts ==
    {JoinLines(ls) : ls \in
        {<<<<"x">>>>, <<<<"=", "A">>, <<>>, <<"x">>>>,
         <<<<"-", "-", "-">>, <<"t", "i", "t", "l", "e", ":", " ", "T">>,
           <<"-", "-", "-">>, <<"x">>>>,
         <<<<"-", "-", "-">>, <<"x">>, <<"-", "-", "-">>>>,
         <<<<"x">>, <<>>, <<"=", "=", "B", "=">>>>}}

TimerPieces ==
    {<<"~">>, <<"x">>, <<" ">>, <<"{", "}">>, <<"{", "1", "}">>,
     <<"{", "1", "%", "g", "}">>, <<"{", "1", "/", "0", "%", "g", "}">>,
     <<"{", "%", "a", "}">>}
TimerInputs ==
    {t \in {Concat(ps) : ps \in SeqsUpTo(TimerPieces, MaxTimerPieces)} : IsParagraph(t)}

---------------------------------------------------------------------------
(* Specifications.                                                         *)

NotBuilt == [cls |-> "-"]
Unparsed == [tokens |-> <<>>, section |-> -1]
RecipeSettings(ignore_section_depth) == [ignore_section_depth |-> ignore_section_depth]
EmptyRecipe == [title |-> PyNone, metadata |-> EmptyMapping, steps |-> <<>>,
                sections |-> <<>>, settings |-> RecipeSettings(TRUE)]
NoOutput == [format |-> "-", lines |-> <<>>]
NotRead  == [read |-> FALSE, items |-> <<>>]
Read(items) == [read |-> TRUE, items |-> items]

\* No call of read_cook.
NotReading ==
    [path |-> "-", text |-> <<>>, stem |-> <<>>, infer_title |-> FALSE,
     search_image |-> FALSE, image |-> FALSE, outcome |-> "-"]

NumIdle  == /\ value = <<>> /\ fractions = FALSE /\ number = NotCalled
            /\ ingredient = NotBuilt /\ timer = NotBuilt
StepIdle == par = <<>> /\ step = Unparsed /\ dsl = NoOutcome /\ utl = NoOutcome
DocIdle  == pc = "idle" /\ recipe = EmptyRecipe /\ current_section = NoSection
            /\ out = NoOutput /\ ingredients = NotRead /\ cookware = NotRead
ParseIdle == /\ source = <<>> /\ remaining_text = <<>> /\ paragraphs = <<>>
             /\ index = 0 /\ calls = <<>> /\ outputs = <<>> /\ reader = NotReading

\* A match of the braced form whose amount group captured `v` (or took no
\* part, when v is empty).
AmountMatch(v) ==
    [NoMatch EXCEPT !.start = 0, !.end = Len(v) + 4, !.name = PyStr(<<"x">>),
                    !.amount = IF v = <<>> THEN PyNone ELSE PyStr(v)]
IsAmount(v) == \A i \in 1..Len(v) : IsAmountChar(v[i])

InitNum ==
    /\ value \in NumInputs /\ fractions \in BOOLEAN
    /\ number = NotCalled /\ ingredient = NotBuilt /\ timer = NotBuilt
    /\ StepIdle /\ DocIdle /\ ParseIdle

CallParseNumber ==
    /\ number = NotCalled
    /\ number' = ParseNumber(value, fractions)
    /\ UNCHANGED <<value, fractions, ingredient, timer, stepVars, docVars, parseVars, outputs, reader>>

CallCreateIngredient ==
    /\ ingredient = NotBuilt /\ IsAmount(value)
    /\ ingredient' = CreateIngredientFromMatch(AmountMatch(value))
    /\ UNCHANGED <<value, fractions, number, timer, stepVars, docVars, parseVars, outputs, reader>>

CallCreateTimer ==
    /\ timer = NotBuilt /\ IsAmount(value)
    /\ timer' = CreateTimerFromMatch(AmountMatch(value))
    /\ UNCHANGED <<value, fractions, number, ingredient, stepVars, docVars, parseVars, outputs, reader>>

NextNum == CallParseNumber \/ CallCreateIngredient \/ CallCreateTimer
SpecNum == InitNum /\ [][NextNum]_vars

InitStep ==
    /\ par \in ParagraphInputs
    /\ step = Unparsed /\ dsl = NoOutcome /\ utl = NoOutcome
    /\ NumIdle /\ DocIdle /\ ParseIdle

CallParseStep ==
    /\ step = Unparsed
    /\ step' = ParseStep(par)
    /\ UNCHANGED <<par, dsl, utl, numVars, docVars, parseVars, outputs, reader>>

NextStep == CallParseStep
SpecStep == InitStep /\ [][NextStep]_vars

InitTimers ==
    /\ par \in TimerInputs
    /\ step = Unparsed /\ dsl = NoOutcome /\ utl = NoOutcome
    /\ NumIdle /\ DocIdle /\ ParseIdle

CallDslParseStep ==
    /\ ~dsl.called
    /\ dsl' = DslParseStep(par)
    /\ UNCHANGED <<par, step, utl, numVars, docVars, parseVars, outputs, reader>>

CallParseTimer ==
    /\ ~utl.called
    /\ utl' = ParseTimer(par)
    /\ UNCHANGED <<par, step, dsl, numVars, docVars, parseVars, outputs, reader>>

NextTimers == CallParseStep \/ CallDslParseStep \/ CallParseTimer
SpecTimers == InitTimers /\ [][NextTimers]_vars

\* CooklangParser(ignore_section_depth).parse(text), one paragraph of the
\* text per step of the loop (`paragraphs` grows to the list the text is
\* split into), and the renderers called on the Recipe it returns.
Init ==
    /\ pc = "parse"
    /\ \E t \in Titles, d \in BOOLEAN :
           recipe = [EmptyRecipe EXCEPT !.title = t, !.metadata = YamlValue("dict", t),
                                        !.settings = RecipeSettings(d)]
    /\ current_section = NoSection
    /\ out = NoOutput /\ ingredients = NotRead /\ cookware = NotRead
    /\ NumIdle /\ StepIdle /\ ParseIdle

ParseParagraph ==
    /\ pc = "parse"
    /\ Len(recipe.steps) + Len(recipe.sections) < MaxParagraphs
    /\ \E p \in DocParagraphs :
           LET res == ParseParagraphResult(recipe, current_section, p)
           IN  /\ recipe' = res.recipe
               /\ current_section' = res.current_section
               /\ paragraphs' = Append(paragraphs, p)
    /\ index' = index + 1
    /\ UNCHANGED <<pc, out, ingredients, cookware, numVars, stepVars,
                   source, remaining_text, calls, outputs, reader>>

ParseReturn ==
    /\ pc = "parse"
    /\ pc' = "parsed"
    /\ UNCHANGED <<recipe, current_section, out, ingredients, cookware, numVars, stepVars, parseVars, outputs, reader>>

\* A call of a renderer on the Recipe r: the result list and the Recipe as
\* the call finds and leaves it.  No renderer assigns a field of self or
\* changes one of its lists.
Rendering_ConsumesSections(fmt, r) ==
    [format |-> fmt, lines |-> RenderTo(fmt, r), before |-> r,
     after |-> [r EXCEPT !.sections = <<>>]]

Rendering(fmt, r) ==
    [format |-> fmt, lines |-> RenderTo(fmt, r), before |-> r, after |-> r]

CallRenderer(c) ==
    /\ Len(outputs) < MaxRenders
    /\ out' = [format |-> c.format, lines |-> c.lines]
    /\ recipe' = c.after
    /\ outputs' = Append(outputs, c)
    /\ UNCHANGED reader

GetIngredients ==
    /\ pc = "parsed"
    /\ pc' = "called"
    /\ ingredients' = Read(RecipeIngredients(recipe))
    /\ UNCHANGED <<recipe, current_section, out, cookware, numVars, stepVars, parseVars, outputs, reader>>

GetCookware ==
    /\ pc = "parsed"
    /\ pc' = "called"
    /\ cookware' = Read(RecipeCookware(recipe))
    /\ UNCHANGED <<recipe, current_section, out, ingredients, numVars, stepVars, parseVars, outputs, reader>>

CallToMarkdown ==
    /\ pc = "parsed"
    /\ pc' = "called"
    /\ CallRenderer(Rendering("markdown", recipe))
    /\ UNCHANGED <<current_section, ingredients, cookware, numVars, stepVars, parseVars>>

CallToHtml ==
    /\ pc = "parsed"
    /\ pc' = "called"
    /\ CallRenderer(Rendering("html", recipe))
    /\ UNCHANGED <<current_section, ingredients, cookware, numVars, stepVars, parseVars>>

CallToLatex ==
    /\ pc = "parsed"
    /\ pc' = "called"
    /\ CallRenderer(Rendering("latex", recipe))
    /\ UNCHANGED <<current_section, ingredients, cookware, numVars, stepVars, parseVars>>

Next ==
    \/ ParseParagraph \/ ParseReturn \/ GetIngredients \/ GetCookware
    \/ CallToMarkdown \/ CallToHtml \/ CallToLatex
Spec == Init /\ [][Next]_vars

\* recipe = Recipe(); recipe.settings = self.settings: the fields of the
\* new Recipe are built by their default factories, whatever Recipe
\* `previous` an earlier call returned.
NewRecipe_SharedLists(previous, settings) ==
    [EmptyRecipe EXCEPT !.settings = settings, !.steps = previous.steps,
                        !.sections = previous.sections]

NewRecipe(previous, settings) == [EmptyRecipe EXCEPT !.settings = settings]

\* The outcome of a call of parse: the Recipe returned, or the Recipe as it
\* was when the call raised.
Call(text, outcome, r) == [text |-> text, outcome |-> outcome, recipe |-> r]

ParseStart ==
    /\ pc = "metadata" /\ remaining_text = <<>> /\ paragraphs = <<>> /\ index = 0
    /\ current_section = NoSection
    /\ out = NoOutput /\ ingredients = NotRead /\ cookware = NotRead
    /\ outputs = <<>> /\ reader = NotReading
    /\ NumIdle /\ StepIdle

\* CooklangParser().parse(source), statement by statement.
InitParse ==
    /\ source \in TextInputs
    /\ recipe = NewRecipe(EmptyRecipe, RecipeSettings(TRUE))
    /\ calls = <<>>
    /\ ParseStart

\* text, recipe.metadata = self._parse_metadata(text);
\* recipe.title = recipe.metadata.get("title"): a value that is no mapping
\* has no get and the call raises AttributeError.
AfterMetadata(r, m) ==
    IF m.metadata.kind = "dict"
    THEN [pc |-> "split",
          recipe |-> [r EXCEPT !.metadata = m.metadata, !.title = m.metadata.title]]
    ELSE [pc |-> "raised", recipe |-> [r EXCEPT !.metadata = m.metadata]]

ParseMetadataDone(m, after) ==
    /\ remaining_text' = m.text
    /\ recipe' = after.recipe
    /\ pc' = after.pc

CallParseMetadataOf(m) == ParseMetadataDone(m, AfterMetadata(recipe, m))

CallParseMetadata ==
    /\ pc = "metadata"
    /\ CallParseMetadataOf(ParseMetadata(source))
    /\ UNCHANGED <<source, paragraphs, index, calls, current_section, out,
                   ingredients, cookware, numVars, stepVars, outputs, reader>>

\* paragraphs = self._split_into_paragraphs(text); current_section = None
CallSplitIntoParagraphs ==
    /\ pc = "split"
    /\ paragraphs' = SplitIntoParagraphs(remaining_text)
    /\ current_section' = NoSection
    /\ index' = 0
    /\ pc' = "loop"
    /\ UNCHANGED <<source, remaining_text, calls, recipe, out, ingredients, cookware,
                   numVars, stepVars, outputs, reader>>

ParseLoopResult(res) ==
    /\ recipe' = res.recipe
    /\ current_section' = res.current_section

\* One iteration of `for paragraph in paragraphs`
ParseLoop ==
    /\ pc = "loop" /\ index < Len(paragraphs)
    /\ index' = index + 1
    /\ IF Strip(paragraphs[index + 1]) = <<>>
       THEN UNCHANGED <<recipe, current_section>>
       ELSE ParseLoopResult(ParseParagraphResult(recipe, current_section,
                                                 Strip(paragraphs[index + 1])))
    /\ UNCHANGED <<pc, source, remaining_text, paragraphs, calls, out, ingredients,
                   cookware, numVars, stepVars, outputs, reader>>

\* return recipe
ParseLoopEnd ==
    /\ pc = "loop" /\ index = Len(paragraphs)
    /\ pc' = "parsed"
    /\ UNCHANGED <<source, remaining_text, paragraphs, index, calls, recipe,
                   current_section, out, ingredients, cookware, numVars, stepVars, outputs, reader>>

NextParse == CallParseMetadata \/ CallSplitIntoParagraphs \/ ParseLoop \/ ParseLoopEnd
SpecParse == InitParse /\ [][NextParse]_vars

\* Calls of parse one after another, on one parser or on parsers built with
\* the same argument.
InitCalls ==
    /\ source \in CallTexts
    /\ \E d \in BOOLEAN : recipe = NewRecipe(EmptyRecipe, RecipeSettings(d))
    /\ calls = <<>>
    /\ ParseStart

\* The call has ended; parse is called with another text or the same.
ParseAgain ==
    /\ pc \in {"parsed", "raised"} /\ Len(calls) + 1 < MaxCalls
    /\ calls' = Append(calls, Call(source, pc, recipe))
    /\ source' \in CallTexts
    /\ recipe' = NewRecipe(recipe, recipe.settings)
    /\ pc' = "metadata" /\ remaining_text' = <<>> /\ paragraphs' = <<>> /\ index' = 0
    /\ current_section' = NoSection
    /\ UNCHANGED <<out, ingredients, cookware, numVars, stepVars, outputs, reader>>

NextCalls == NextParse \/ ParseAgain
SpecCalls == InitCalls /\ [][NextCalls]_vars

\* self.settings = RecipeSettings(ignore_section_depth) is built once, in
\* __init__, and parse binds it with recipe.settings = self.settings: the
\* Recipes of one parser and the parser hold one RecipeSettings object, so an
\* assignment to its field through any of them is read through all of them.
WithSetting(r, d) == [r EXCEPT !.settings = RecipeSettings(d)]

WithSettingInCalls(cs, d) ==
    [k \in 1..Len(cs) |-> [cs[k] EXCEPT !.recipe = WithSetting(cs[k].recipe, d)]]

\* some_recipe.settings.ignore_section_depth = not ignore_section_depth, for
\* one of the Recipes the parser has returned.
SetIgnoreSectionDepth ==
    /\ pc = "parsed" /\ calls # <<>>
    /\ recipe' = WithSetting(recipe, ~recipe.settings.ignore_section_depth)
    /\ calls' = WithSettingInCalls(calls, ~recipe.settings.ignore_section_depth)
    /\ UNCHANGED <<pc, source, remaining_text, paragraphs, index, current_section,
                   out, ingredients, cookware, numVars, stepVars, outputs, reader>>

\* Calls of parse on one parser, and assignments to the settings of the
\* Recipes it returned.
NextSettings == NextCalls \/ SetIgnoreSectionDepth
SpecSettings == InitCalls /\ [][NextSettings]_vars

\* parse, then renderers called on the Recipe it returned, again and again.
CallToText ==
    /\ pc = "parsed"
    /\ pc' = "called"
    /\ CallRenderer(Rendering("text", recipe))
    /\ UNCHANGED <<current_section, ingredients, cookware, numVars, stepVars, parseVars>>

CallAgain ==
    /\ pc = "called"
    /\ \E fmt \in Formats : CallRenderer(Rendering(fmt, recipe))
    /\ UNCHANGED <<pc, current_section, ingredients, cookware, numVars, stepVars,
                   parseVars>>

NextRender ==
    \/ NextParse
    \/ CallToMarkdown \/ CallToHtml \/ CallToLatex \/ CallToText \/ CallAgain
SpecRender == InitCalls /\ [][NextRender]_vars

\* read_cook(file_path, infer_title, search_image).  `path` is what the file
\* system holds at file_path: nothing, a directory, a file whose bytes are
\* no UTF-8 text, or a file with the text `text`; `stem` is file_path.stem and
\* `image` says whether find_related_image finds a file next to it.
Upper(c) == CASE c = "a" -> "A" [] c = "b" -> "B" [] OTHER -> c

\* file_path.stem.replace("_", " ").replace("-", " ").title()
StemTitle(stem) ==
    LET t == [i \in 1..Len(stem) |-> IF stem[i] \in {"_", "-"} THEN " " ELSE stem[i]]
    IN  [i \in 1..Len(t) |->
           IF i = 1 \/ ~IsAlpha(t[i - 1]) THEN Upper(t[i]) ELSE Lower(t[i])]

\* str(image_path) of the first candidate, in the directory of the file
ImagePath(stem) == stem \o <<".", "w", "e", "b", "p">>

InferTitle_Always(rd, r) ==
    IF rd.infer_title THEN [r EXCEPT !.title = PyStr(StemTitle(rd.stem))] ELSE r

\* if infer_title and not recipe.title: recipe.title = ...
InferTitle(rd, r) ==
    IF rd.infer_title /\ ~Truthy(r.title)
    THEN [r EXCEPT !.title = PyStr(StemTitle(rd.stem))] ELSE r

\* if search_image: ... recipe.metadata["image"] = str(image_path)
InjectImage(rd, r) ==
    IF rd.search_image /\ rd.image
    THEN [r EXCEPT !.metadata.image = PyStr(ImagePath(rd.stem))] ELSE r

Stems == {<<"a", "_", "b">>, <<"B", "-", "a">>}
ReadCookCalls ==
    {[NotReading EXCEPT !.path = "missing"], [NotReading EXCEPT !.path = "directory"],
     [NotReading EXCEPT !.path = "undecodable"]}
    \cup {[path |-> "file", text |-> t, stem |-> st, infer_title |-> it,
           search_image |-> si, image |-> im, outcome |-> "-"] :
            t \in CallTexts, st \in Stems, it \in BOOLEAN, si \in BOOLEAN, im \in BOOLEAN}

InitRead ==
    /\ reader \in ReadCookCalls
    /\ source = <<>> /\ remaining_text = <<>> /\ paragraphs = <<>> /\ index = 0
    /\ calls = <<>> /\ outputs = <<>>
    /\ NumIdle /\ StepIdle /\ DocIdle

\* The exception of exists() / read_text(encoding="utf-8"), which read_cook
\* does not catch, for a path that is no readable text file.
OpenError(path) ==
    CASE path = "missing"     -> "FileNotFoundError"
      [] path = "directory"   -> "IsADirectoryError"
      [] path = "undecodable" -> "UnicodeDecodeError"

\* read_cook up to the call of parse on a new CooklangParser()
ReadCookOpen ==
    /\ pc = "idle" /\ reader.outcome = "-"
    /\ IF reader.path = "file"
       THEN /\ source' = reader.text
            /\ recipe' = NewRecipe(recipe, RecipeSettings(TRUE))
            /\ pc' = "metadata"
            /\ UNCHANGED reader
       ELSE /\ reader' = [reader EXCEPT !.outcome = OpenError(reader.path)]
            /\ pc' = "done"
            /\ UNCHANGED <<source, recipe>>
    /\ UNCHANGED <<remaining_text, paragraphs, index, calls, current_section, out,
                   ingredients, cookware, numVars, stepVars, outputs>>

\* except Exception as e: raise ValueError(...)
ReadCookRaise ==
    /\ pc = "raised" /\ reader.outcome = "-"
    /\ reader' = [reader EXCEPT !.outcome = "ValueError"]
    /\ pc' = "done"
    /\ UNCHANGED <<recipe, current_section, out, ingredients, cookware, numVars,
                   stepVars, parseVars, outputs>>

\* parse returned: title inference, image search, return recipe
ReadCookReturn ==
    /\ pc = "parsed" /\ reader.outcome = "-"
    /\ recipe' = InjectImage(reader, InferTitle(reader, recipe))
    /\ reader' = [reader EXCEPT !.outcome = "Recipe"]
    /\ pc' = "done"
    /\ UNCHANGED <<current_section, out, ingredients, cookware, numVars,
                   stepVars, parseVars, outputs>>

NextRead == ReadCookOpen \/ NextParse \/ ReadCookRaise \/ ReadCookReturn
SpecRead == InitRead /\ [][NextRead]_vars

---------------------------------------------------------------------------
(* Properties of _parse_number and of the amounts the tokenizer parses     *)
(* (SpecNum).                                                              *)

OneHalf    == <<"1", "/", "2">>
OneByZero  == <<"1", "/", "0">>
OnePointFive == <<"1", ".", "5">>

\* The amounts the tokenizer has parsed from the captured string `value`.
ParsedAmounts ==
    (IF ingredient # NotBuilt THEN {ingredient.quantity} ELSE {})
      \cup (IF timer # NotBuilt THEN {timer.duration} ELSE {})

\* C5, as stated: the tokenizer turns the captured amount "1/2" into the
\* number 0.5, "3" into the integer 3 and "1.5" into the float 1.5, and
\* _parse_number leaves "abc" the string "abc".
C5_TokenizerParsesFractions ==
    /\ \A q \in ParsedAmounts :
          /\ value = OneHalf => q = PyFloat(1, 2)
          /\ value = <<"3">> => q = PyInt(3)
          /\ value = OnePointFive => q = PyFloat(3, 2)
    /\ (number # NotCalled /\ value = <<"a", "b", "c">>) => number = PyStr(value)

\* C5, amended: the tokenizer calls _parse_number with fractions disabled, so
\* a captured amount that contains '/' stays the captured string ("1/2"
\* stays "1/2"); "3" becomes the integer 3, "1.5" the float 1.5, and
\* _parse_number leaves "abc" the string "abc".
C5_TokenizerKeepsFractionStrings ==
    /\ \A q \in ParsedAmounts :
          /\ HasChar(value, "/") => q = PyStr(value)
          /\ value = OneHalf => q = PyStr(OneHalf)
          /\ value = <<"3">> => q = PyInt(3)
          /\ value = OnePointFive => q = PyFloat(3, 2)
    /\ (number # NotCalled /\ value = <<"a", "b", "c">>) => number = PyStr(value)

\* An ingredient was built from the captured amount "1/2" and its quantity
\* is the string "1/2".
C5_Witness ==
    /\ ingredient # NotBuilt /\ value = OneHalf
    /\ ingredient.quantity = PyStr(OneHalf)

\* The inputs C6 names as unparsable.
Unparsable ==
    \/ value \in {<<"1", "-", "2">>, <<"1", ".", "2", ".", "3">>, <<"a", "b", "c">>}
    \/ value = OneByZero /\ fractions

\* C6, as stated: _parse_number never raises; an input that cannot be parsed
\* comes back as the input string, unchanged; every other result is an
\* integer when the string has no '.' and a float when it has one.
C6_IntUnlessDot ==
    number # NotCalled =>
        /\ number.kind \in {"int", "float", "str"}
        /\ number.kind = "str" => number.s = value
        /\ Unparsable => number = PyStr(value)
        /\ number.kind # "str" => (number.kind = "float" <=> HasChar(value, "."))

\* C6, amended: _parse_number never raises; an input that cannot be parsed
\* comes back as the input string, unchanged; every other result is a float
\* when fractions are enabled and the string contains '/', and otherwise an
\* integer when the string has no '.' and a float when it has one.
C6_NeverRaises ==
    number # NotCalled =>
        /\ number.kind \in {"int", "float", "str"}
        /\ number.kind = "str" => number.s = value
        /\ Unparsable => number = PyStr(value)
        /\ number.kind # "str" =>
              IF fractions /\ HasChar(value, "/")
              THEN number.kind = "float"
              ELSE number.kind = "float" <=> HasChar(value, ".")

\* _parse_number("1/0", fractions=True) has returned the string "1/0".
C6_Witness ==
    /\ number # NotCalled /\ value = OneByZero /\ fractions
    /\ number = PyStr(OneByZero)

---------------------------------------------------------------------------
(* Properties of _parse_step (SpecStep).                                   *)

Parsed == step # Unparsed

\* Offset i of the paragraph lies inside token k.
Covers(k, i) == step.tokens[k].start_pos <= i /\ i < step.tokens[k].end_pos
Covered(i)   == \E k \in 1..Len(step.tokens) : Covers(k, i)

\* The paragraph without the characters no token covers.
RECURSIVE CoveredText(_)
CoveredText(i) ==
    IF i >= Len(par) THEN <<>>
    ELSE (IF Covered(i) THEN <<Ch(par, i)>> ELSE <<>>) \o CoveredText(i + 1)

\* C1: Step.text reproduces the paragraph except for white-space-only gaps
\* between matches, which are dropped, and no character of the paragraph
\* appears in more than one token, also when one match lies inside another.
C1_TextReproducesParagraph ==
    Parsed =>
        /\ \A i \in 0..(Len(par) - 1) :
              /\ Cardinality({k \in 1..Len(step.tokens) : Covers(k, i)}) <= 1
              /\ ~Covered(i) => IsSpace(Ch(par, i))
        /\ StepText(step) = CoveredText(0)

Patterns ==
    {"ingredient_pattern", "cookware_pattern", "timer_pattern",
     "comment_inline_pattern", "comment_block_pattern", "note_pattern"}

NoMatcherMatches == \A pattern \in Patterns : FindIter(pattern, par, 0) = <<>>

\* C2: a non-empty paragraph in which none of the six matchers finds a match
\* gives a Step with exactly one token, a TextToken whose text is the
\* paragraph, with start_pos 0 and end_pos the length of the paragraph.
C2_PlainParagraphIsOneTextToken ==
    (Parsed /\ NoMatcherMatches) =>
        step.tokens = <<Token("TextToken", par, 0, Len(par), NoData)>>

\* A paragraph with a '~' that no matcher matches was parsed into one
\* TextToken.
C2_Witness ==
    /\ Parsed /\ NoMatcherMatches /\ HasChar(par, "~") /\ Len(par) >= 2
    /\ Len(step.tokens) = 1 /\ step.tokens[1].text = par

\* The offsets at which '@' is followed by a word and the braced form does
\* not match.
BareIngredientAt(s) ==
    /\ s + 1 < Len(par) /\ Ch(par, s) = "@" /\ IsWord(Ch(par, s + 1))
    /\ BracedMatch("@", TRUE, par, s) = NoMatch
WordEnd(s) == RunEnd(par, s + 1, IsWord)

IngredientTokensAt(s) ==
    {k \in 1..Len(step.tokens) :
        step.tokens[k].type = "IngredientToken" /\ step.tokens[k].start_pos = s}

\* C7: where '@' is followed by a word and the braced form does not match,
\* parsing gives exactly one Ingredient for that position, named by that
\* single word, with quantity, unit and preparation None; the token ends
\* with the word, and when nothing else in the paragraph matches, the text
\* after the word is the plain text that follows the token.
C7_BareIngredient ==
    Parsed =>
        \A s \in 0..(Len(par) - 1) :
            BareIngredientAt(s) =>
                /\ Cardinality(IngredientTokensAt(s)) = 1
                /\ \A k \in IngredientTokensAt(s) :
                      /\ step.tokens[k].data =
                            Ingredient(PyStr(Slice(par, s + 1, WordEnd(s))),
                                       PyNone, PyNone, PyNone)
                      /\ step.tokens[k].end_pos = WordEnd(s)
                      /\ step.tokens[k].text = Slice(par, s, WordEnd(s))
                      /\ (Len(AllMatches(par)) = 1
                            /\ ~IsBlank(Slice(par, WordEnd(s), Len(par)))) =>
                            /\ k + 1 = Len(step.tokens)
                            /\ step.tokens[k + 1] =
                                  Token("TextToken", Slice(par, WordEnd(s), Len(par)),
                                        WordEnd(s), Len(par), NoData)

\* "@a x" was parsed into the Ingredient a and the plain text " x".
C7_Witness ==
    /\ Parsed /\ par = <<"@", "a", " ", "x">> /\ BareIngredientAt(0)
    /\ Len(step.tokens) = 2
    /\ step.tokens[1].data = Ingredient(PyStr(<<"a">>), PyNone, PyNone, PyNone)
    /\ step.tokens[2].type = "TextToken"

---------------------------------------------------------------------------
(* The bare timer in the three parsers (SpecTimers).                       *)

\* The paragraph has no braces and a '~' followed by a word.
BareTimerParagraph ==
    /\ ~HasChar(par, "{") /\ ~HasChar(par, "}")
    /\ \E s \in 0..(Len(par) - 2) : Ch(par, s) = "~" /\ IsWord(Ch(par, s + 1))

NoTimerToken(tokens) == \A k \in 1..Len(tokens) : tokens[k].type # "TimerToken"

\* C8: for a paragraph with a bare '~word' and no braces, none of the three
\* parsers raises and none creates a Timer.
C8_BareTimerIgnored ==
    BareTimerParagraph =>
        /\ Parsed => NoTimerToken(step.tokens)
        /\ dsl.called => ~dsl.raised /\ NoTimerToken(dsl.tokens)
        /\ utl.called =>
              ~utl.raised /\ \A k \in 1..Len(utl.tokens) : ~utl.tokens[k].made

---------------------------------------------------------------------------
(* Properties of the Recipe: its lists and its renderers (Spec).           *)

\* Python equality of two (name, unit, preparation, quantity) tuples.
SameTuple(a, b) ==
    /\ a.name = b.name /\ a.unit = b.unit /\ a.preparation = b.preparation
    /\ PyEq(a.quantity, b.quantity)
SameName(a, b) == a.name = b.name

\* The positions of `all` whose key occurs at no earlier position, and the
\* entries at those positions, in order.
FirstOccurrences(all, Same(_, _)) ==
    {i \in 1..Len(all) : \A j \in 1..(i - 1) : ~Same(all[j], all[i])}
NthOf(S, n) == CHOOSE i \in S : Cardinality({j \in S : j < i}) = n - 1
FirstOccurrenceList(all, Same(_, _)) ==
    LET first == FirstOccurrences(all, Same)
    IN  [n \in 1..Cardinality(first) |-> all[NthOf(first, n)]]

StepIngredients == AllPayloads(recipe.steps, "IngredientToken")
StepCookware    == AllPayloads(recipe.steps, "CookwareToken")

\* C3: recipe.ingredients is the ingredients of all steps, in step order then
\* token order, without the later occurrences of a (name, unit, preparation,
\* quantity) tuple already seen: no tuple twice, every tuple of a step
\* present, first-occurrence order kept.
C3_IngredientsFirstOccurrence ==
    ingredients.read =>
        LET res == ingredients.items
        IN  /\ \A i \in 1..Len(res) : \A j \in (i + 1)..Len(res) : ~SameTuple(res[i], res[j])
            /\ \A i \in 1..Len(StepIngredients) :
                  \E j \in 1..Len(res) : SameTuple(res[j], StepIngredients[i])
            /\ res = FirstOccurrenceList(StepIngredients, SameTuple)

\* The steps name the ingredients a, b, a and recipe.ingredients is [a, b].
C3_Witness ==
    /\ ingredients.read
    /\ Len(StepIngredients) = 3
    /\ StepIngredients[1] = StepIngredients[3] /\ StepIngredients[1] # StepIngredients[2]
    /\ ingredients.items = <<StepIngredients[1], StepIngredients[2]>>

\* C4: recipe.cookware has at most one entry per name, the first one in step
\* order then token order, whatever the quantities, in first-occurrence order.
C4_CookwareByName ==
    cookware.read =>
        LET res == cookware.items
        IN  /\ \A i \in 1..Len(res) : \A j \in (i + 1)..Len(res) : res[i].name # res[j].name
            /\ res = FirstOccurrenceList(StepCookware, SameName)

\* The steps name the cookware p with quantity 1 and then with quantity 2,
\* and recipe.cookware is the first of the two.
C4_Witness ==
    /\ cookware.read
    /\ Len(StepCookware) = 2
    /\ StepCookware[1].name = StepCookware[2].name
    /\ StepCookware[1].quantity # StepCookware[2].quantity
    /\ cookware.items = <<StepCookware[1]>>

\* The headings a renderer emitted, in order: the sections they were made
\* from and their text.
RECURSIVE Headings(_)
Headings(lines) ==
    IF lines = <<>> THEN <<>>
    ELSE (IF Head(lines).kind = "heading" THEN <<Head(lines)>> ELSE <<>>)
           \o Headings(Tail(lines))

Rendered == out.format # "-"

\* Every section heading once, in the order of recipe.sections, each with the
\* title of its section in it.
EverySectionOnceInOrder ==
    LET hs == Headings(out.lines)
    IN  /\ Len(hs) = Len(recipe.sections)
        /\ \A i \in 1..Len(hs) :
              /\ hs[i].ref = i
              /\ \E a \in 0..Len(hs[i].text) :
                    Slice(hs[i].text, a, a + Len(recipe.sections[i].title))
                      = recipe.sections[i].title

\* C9: for a Recipe with at least one step, to_markdown, to_html and to_latex
\* each emit the heading of every entry of recipe.sections exactly once and
\* in list order, sections no step refers to and sections after the last
\* step included.
C9_HeadingsWithSteps ==
    (Rendered /\ recipe.steps # <<>>) => EverySectionOnceInOrder

\* Two headings and one step under the second were rendered to markdown
\* with both headings, the one no step refers to first.
C9_Witness ==
    /\ Rendered /\ out.format = "markdown"
    /\ Len(recipe.sections) = 2 /\ Len(recipe.steps) = 1
    /\ recipe.steps[1].section = 2
    /\ Len(Headings(out.lines)) = 2 /\ Headings(out.lines)[1].ref = 1

\* C10: for a Recipe with sections and no steps, to_markdown, to_html and
\* to_latex all emit the heading of every section, in list order.
C10_HeadingsWithoutSteps ==
    (Rendered /\ recipe.steps = <<>> /\ recipe.sections # <<>>) => EverySectionOnceInOrder

\* The positions in the rendered list of the lines of one kind made from the
\* section, step or list entry at position ref.
PositionsOf(kind, ref) ==
    {i \in 1..Len(out.lines) : out.lines[i].kind = kind /\ out.lines[i].ref = ref}

\* The content of step k comes after the heading of the entry s of
\* recipe.sections and before the heading of every later entry.
StepUnderItsHeading(k, s) ==
    \A ps \in PositionsOf("step", k) :
        /\ \E ph \in PositionsOf("heading", s) : ph < ps
        /\ \A j \in (s + 1)..Len(recipe.sections) :
               \A ph \in PositionsOf("heading", j) : ps < ph

\* C11: in the output of to_markdown, to_html and to_latex every step parsed
\* under a section header comes after the heading of that entry of
\* recipe.sections and before the heading of every later entry, also when
\* two entries have the same title and level.
C11_StepUnderItsOwnHeading ==
    Rendered =>
        \A k \in 1..Len(recipe.steps) :
            recipe.steps[k].section # NoSection
                => StepUnderItsHeading(k, recipe.steps[k].section)

StartsWith(t, prefix) ==
    Len(t) >= Len(prefix) /\ SubSeq(t, 1, Len(prefix)) = prefix

\* What a heading of depth n begins with in each format.
HeadingOpen(fmt, n) ==
    CASE fmt = "markdown" -> Repeat("#", n) \o <<" ">>
      [] fmt = "html"     -> <<"<", "h", DigitChar(n), ">">>
      [] fmt = "latex"    ->
           <<"\\">> \o (CASE n = 1 -> <<"s","e","c","t","i","o","n">>
                          [] n = 2 -> <<"s","u","b","s","e","c","t","i","o","n">>
                          [] n = 3 -> <<"s","u","b","s","u","b","s","e","c","t","i","o","n">>)
                    \o <<"{">>

\* The depth stated for a section of a source level.
StatedDepth(fmt, ignore_section_depth, level) ==
    IF fmt = "latex"
    THEN (IF ignore_section_depth THEN 1 ELSE MinOf(level, 3))
    ELSE (IF ignore_section_depth THEN 3 ELSE MinOf(level + 2, 6))

DepthInRange(fmt, n) ==
    IF fmt = "latex" THEN n \in 1..3 ELSE n \in 3..6

HeadingAtStatedDepth(fmt, text, n) ==
    DepthInRange(fmt, n) /\ StartsWith(text, HeadingOpen(fmt, n))

\* C12: with ignore_section_depth true every section heading is rendered at
\* depth 3 (Markdown, HTML) or as \section (LaTeX); with it false at depth
\* min(level + 2, 6) (Markdown, HTML) or min(level, 3) (LaTeX); the depth is
\* within 3..6 and 1..3 and the LaTeX command exists.
C12_HeadingDepth ==
    Rendered =>
        \A i \in 1..Len(out.lines) :
            out.lines[i].kind = "heading" =>
                HeadingAtStatedDepth(out.format, out.lines[i].text,
                    StatedDepth(out.format, recipe.settings.ignore_section_depth,
                                recipe.sections[out.lines[i].ref].level))

\* A section of source level 5 was rendered with the depth setting honoured:
\* capped at h6 in HTML.
C12_Witness ==
    /\ out.format = "html" /\ ~recipe.settings.ignore_section_depth
    /\ \E i \in 1..Len(out.lines) :
          /\ out.lines[i].kind = "heading"
          /\ recipe.sections[out.lines[i].ref].level = 5
          /\ StartsWith(out.lines[i].text, <<"<", "h", "6", ">">>)

---------------------------------------------------------------------------
(* Properties of parse: front matter, paragraphs, sections (SpecParse).    *)

MetadataReturned == pc # "metadata"

\* The position of the first line that is not blank (0 when all are
\* blank) and the positions of the delimiter lines after it.
FirstNonBlank(lines) ==
    IF \A i \in 1..Len(lines) : IsBlank(lines[i]) THEN 0
    ELSE Min({i \in 1..Len(lines) : ~IsBlank(lines[i])})
HasOpening(lines, first) == first # 0 /\ IsDelimiter(lines[first])
Closings(lines, first) ==
    {i \in (first + 1)..Len(lines) : IsDelimiter(lines[i])}

ReturnedUnchanged == remaining_text = source /\ recipe.metadata = EmptyMapping

\* The block is a mapping or is empty.
IsMapping(loaded) == ~loaded.raised /\ loaded.value.kind \in {"dict", "None"}

\* The front matter between the lines at first and at closing was taken
\* off: what is returned is the text after the closing delimiter, trimmed,
\* and the mapping of the block.
FrontMatterTaken(lines, block, closing) ==
    IsMapping(SafeLoad(block)) =>
        /\ remaining_text = Strip(JoinLines(SubSeq(lines, closing + 1, Len(lines))))
        /\ recipe.metadata.kind = "dict"
        /\ recipe.metadata.title = TitleOf(block, PyNone)

MetadataAsStated(lines, first, closings) ==
    IF HasOpening(lines, first) /\ closings # {}
    THEN FrontMatterTaken(lines, SubSeq(lines, first + 1, Min(closings) - 1), Min(closings))
    ELSE ReturnedUnchanged

MetadataAsStatedFrom(lines, first) ==
    MetadataAsStated(lines, first, Closings(lines, first))

\* C13: _parse_metadata returns the text as it was given, leading blank lines
\* included, and an empty mapping when the first non-blank line is not '---'
\* and when an opening '---' has no closing '---'; when both are there and
\* the block is a mapping, it returns the text after the closing delimiter
\* (trimmed) and the mapping, so no line of the front matter is left.
C13_ParseMetadata ==
    MetadataReturned =>
        MetadataAsStatedFrom(SplitLines(source), FirstNonBlank(SplitLines(source)))

\* A front matter with a title was taken off the text.
C13_Witness ==
    /\ MetadataReturned
    /\ source = JoinLines(<<<<"-", "-", "-">>, <<"t", "i", "t", "l", "e", ":", " ", "T">>,
                            <<"-", "-", "-">>, <<"x">>>>)
    /\ recipe.metadata.title = PyStr(<<"T">>)
    /\ remaining_text = <<"x">>

\* The block is invalid YAML, or YAML that is a string or a list.
IsNoMapping(loaded) == loaded.raised \/ loaded.value.kind \in {"str", "list"}

MalformedIsNoMetadata(lines, first, closings) ==
    (/\ HasOpening(lines, first) /\ closings # {}
     /\ IsNoMapping(SafeLoad(SubSeq(lines, first + 1, Min(closings) - 1))))
        => ReturnedUnchanged /\ pc # "raised"

MalformedIsNoMetadataFrom(lines, first) ==
    MalformedIsNoMetadata(lines, first, Closings(lines, first))

\* C14: when the block between the delimiters is no key/value structure
\* (invalid YAML, a bare scalar, a list), _parse_metadata returns the text
\* unchanged and an empty mapping and parse goes on without raising; the
\* metadata of a Recipe is always a mapping.
C14_MalformedFrontMatterIsNoMetadata ==
    MetadataReturned =>
        /\ MalformedIsNoMetadataFrom(SplitLines(source), FirstNonBlank(SplitLines(source)))
        /\ recipe.metadata.kind = "dict"

ParagraphsSplit == pc \in {"loop", "parsed"}

\* The lines that are not blank, each trimmed, in order.
RECURSIVE NonBlankLines(_)
NonBlankLines(lines) ==
    IF lines = <<>> THEN <<>>
    ELSE (IF IsBlank(Head(lines)) THEN <<>> ELSE <<Strip(Head(lines))>>)
           \o NonBlankLines(Tail(lines))

\* A paragraph is not empty, is trimmed and has no blank line.
IsCleanParagraph(p) ==
    /\ p # <<>> /\ Strip(p) = p
    /\ Len(NonBlankLines(SplitLines(p))) = Len(SplitLines(p))

\* C15: _split_into_paragraphs returns paragraphs that are non-empty, trimmed
\* and without a blank line, in source order, and every non-blank line of
\* the text is a line of exactly one of them.
C15_SplitIntoParagraphs ==
    ParagraphsSplit =>
        /\ \A i \in 1..Len(paragraphs) : IsCleanParagraph(paragraphs[i])
        /\ Concat([i \in 1..Len(paragraphs) |-> NonBlankLines(SplitLines(paragraphs[i]))])
             = NonBlankLines(SplitLines(remaining_text))

\* A text with a white-space line between two paragraphs, the second of two
\* lines, was split.
C15_Witness ==
    /\ ParagraphsSplit
    /\ remaining_text = JoinLines(<<<<"x">>, <<" ">>, <<"=", "=", "B", "=">>, <<"x">>>>)
    /\ paragraphs = <<<<"x">>, <<"=", "=", "B", "=", "\n", "x">>>>

\* The first line of a paragraph matches the heading pattern.
FirstLineIsHeading(p) == SectionMatch(Head(SplitLines(p))).matched

\* The paragraphs among the first n whose first line is a heading.
HeadingParagraphs(n) == {i \in 1..n : FirstLineIsHeading(paragraphs[i])}

\* C16: a paragraph is recognised as a section heading if and only if its
\* first line matches the heading pattern, so also a paragraph of several
\* lines whose first line is a heading: of the paragraphs the loop has
\* taken, those with a heading as first line have become the Sections.
C16_HeadingIffFirstLineMatches ==
    ParagraphsSplit =>
        Len(recipe.sections) = Cardinality(HeadingParagraphs(index))

\* The number of '=' a paragraph begins with.
LeadingMarkers(p) == RunEnd(p, 0, IsEq)

\* Of the paragraphs ps, in order: the leading markers of those the heading
\* pattern matches, and the tokens of the others.
RECURSIVE HeadingLevels(_)
HeadingLevels(ps) ==
    IF ps = <<>> THEN <<>>
    ELSE (IF SectionMatch(Head(ps)).matched THEN <<LeadingMarkers(Head(ps))>> ELSE <<>>)
           \o HeadingLevels(Tail(ps))

RECURSIVE StepTokens(_)
StepTokens(ps) ==
    IF ps = <<>> THEN <<>>
    ELSE (IF SectionMatch(Head(ps)).matched THEN <<>> ELSE <<ParseStep(Head(ps)).tokens>>)
           \o StepTokens(Tail(ps))

\* C17: in parse every paragraph becomes one Section or one Step, never
\* both: after n paragraphs len(steps) + len(sections) = n, the sections are
\* the heading paragraphs in source order, each with the number of its
\* leading '=' (at least 1) as level, and the steps are the other paragraphs
\* in source order.
C17_SectionOrStep ==
    ParagraphsSplit =>
        /\ Len(recipe.steps) + Len(recipe.sections) = index
        /\ [i \in 1..Len(recipe.sections) |-> recipe.sections[i].level]
             = HeadingLevels(SubSeq(paragraphs, 1, index))
        /\ \A i \in 1..Len(recipe.sections) : recipe.sections[i].level >= 1
        /\ [k \in 1..Len(recipe.steps) |-> recipe.steps[k].tokens]
             = StepTokens(SubSeq(paragraphs, 1, index))
        /\ pc = "parsed" => index = Len(paragraphs)

\* A heading with a trailing marker and a step were parsed: one Section of
\* level 2 and one Step.
C17_Witness ==
    /\ pc = "parsed"
    /\ paragraphs = <<<<"=", "=", "B", "=">>, <<"x">>>>
    /\ recipe.sections = <<Section(<<"B">>, 2)>>
    /\ Len(recipe.steps) = 1

\* For the paragraphs ps in order, n headings and the Section `last` having
\* come before them: for every paragraph that is no heading, the number of
\* headings before it and the Section of the last of them.
RECURSIVE HeadingsBefore(_, _)
HeadingsBefore(ps, n) ==
    IF ps = <<>> THEN <<>>
    ELSE IF SectionMatch(Head(ps)).matched THEN HeadingsBefore(Tail(ps), n + 1)
    ELSE <<n>> \o HeadingsBefore(Tail(ps), n)

RECURSIVE LastHeadingBefore(_, _)
LastHeadingBefore(ps, last) ==
    IF ps = <<>> THEN <<>>
    ELSE IF SectionMatch(Head(ps)).matched
    THEN LastHeadingBefore(Tail(ps),
             Section(SectionMatch(Head(ps)).title, LeadingMarkers(Head(ps))))
    ELSE <<last>> \o LastHeadingBefore(Tail(ps), last)

\* C18: each Step's section is the Section made from the last heading
\* paragraph before the step's paragraph, None when there is none; so once a
\* step has a section every later step has one and the positions in
\* recipe.sections of the sections of successive steps never decrease.
C18_StepSection ==
    /\ [k \in 1..Len(recipe.steps) |-> recipe.steps[k].section]
         = HeadingsBefore(SubSeq(paragraphs, 1, index), 0)
    /\ [k \in 1..Len(recipe.steps) |-> SectionOf(recipe, recipe.steps[k])]
         = LastHeadingBefore(SubSeq(paragraphs, 1, index), NoSectionValue)
    /\ \A k \in 1..Len(recipe.steps) : \A l \in k..Len(recipe.steps) :
          /\ recipe.steps[k].section <= recipe.steps[l].section
          /\ recipe.steps[k].section # NoSection => recipe.steps[l].section # NoSection

\* A step before any heading, then a heading and a step under it.
C18_Witness ==
    /\ pc = "parsed" /\ Len(paragraphs) = 3
    /\ SectionMatch(paragraphs[2]).matched
    /\ Len(recipe.steps) = 2
    /\ recipe.steps[1].section = NoSection
    /\ recipe.steps[2].section = 1

---------------------------------------------------------------------------
(* Properties of repeated calls (SpecCalls) and of the renderers.          *)

\* The calls of parse that have ended, the last one included.
EndedCalls ==
    calls \o (IF pc \in {"parsed", "raised"} THEN <<Call(source, pc, recipe)>> ELSE <<>>)

SameOutcome(cs) ==
    \A i \in 1..Len(cs) : \A j \in 1..Len(cs) :
        cs[i].text = cs[j].text => cs[i] = cs[j]

---------------------------------------------------------------------------
(* Properties of the plain-text and LaTeX renderings of a Step (SpecStep). *)

Overlap(a, b) == a.start_pos < b.end_pos /\ b.start_pos < a.end_pos

\* The tokens of the step whose span shares a character with the span of a
\* comment token (the comment tokens themselves included).
InsideComment ==
    {j \in 1..Len(step.tokens) :
        \E k \in 1..Len(step.tokens) :
            step.tokens[k].type = "CommentToken" /\ Overlap(step.tokens[j], step.tokens[k])}

\* C21: comments never contribute to plain text: no token that holds a
\* character of the span of an inline or block comment renders to anything
\* in Step.to_plain_text, also when the comment contains '@', '#' or '~'
\* markup.
C21_CommentsLeaveNoPlainText ==
    Parsed => \A j \in InsideComment : ToPlainText(step.tokens[j]) = <<>>

\* "quantity unit name", the unit when there is one, and the preparation in
\* parentheses after it when there is one.
QuantityUnitName(i) ==
    PyStrOf(i.quantity) \o <<" ">>
      \o (IF Truthy(i.unit) THEN i.unit.s \o <<" ">> ELSE <<>>) \o i.name.s
PreparationSuffix(i) ==
    IF Truthy(i.preparation) THEN <<" ", "(">> \o i.preparation.s \o <<")">> ELSE <<>>

\* What the claim states for an ingredient token made from match m.
RendersAsStated(token, m) ==
    ToPlainText(token) =
        (IF Truthy(m.amount) THEN QuantityUnitName(token.data) ELSE token.data.name.s)
          \o PreparationSuffix(token.data)

\* C22: in plain text an ingredient token whose amount was captured renders
\* as "quantity unit name" (the unit when present), for every captured
\* amount, the amount 0 included, and as the bare name only when no amount
\* was captured.
C22_IngredientPlainText ==
    Parsed =>
        \A k \in 1..Len(step.tokens) :
            step.tokens[k].type = "IngredientToken" =>
                RendersAsStated(step.tokens[k],
                    PatternMatch("ingredient_pattern", par, step.tokens[k].start_pos))

RECURSIVE PiecesOfKind(_, _)
PiecesOfKind(pieces, kind) ==
    IF pieces = <<>> THEN <<>>
    ELSE (IF Head(pieces).kind = kind THEN <<Head(pieces)>> ELSE <<>>)
           \o PiecesOfKind(Tail(pieces), kind)

\* One \ingredient macro for each ingredient token, in token order, each
\* followed by a line break, and all of them before the first entry made in
\* the token loop.
Hoisted(tokens, pieces, macros) ==
    /\ [n \in 1..Len(macros) |-> macros[n].ref] = IngredientPositions(tokens, 1)
    /\ \A n \in 1..Len(macros) :
          /\ macros[n].text = IngredientToLatex(tokens[macros[n].ref].data)
          /\ pieces[2 * n - 1] = macros[n]
          /\ pieces[2 * n].kind = "newline"
    /\ \A n \in 1..Len(pieces) : pieces[n].kind = "token" => n > 2 * Len(macros)

\* No entry of the token loop renders an ingredient token.
NotInline(tokens, inline) ==
    \A n \in 1..Len(inline) :
        tokens[inline[n].ref].type = "IngredientToken" => inline[n].text = <<>>

\* The token loop makes one entry for each token, in token order, and the
\* entry of an ingredient token is \textbf{...} beginning with its name.
AlsoInline(tokens, inline) ==
    /\ Len(inline) = Len(tokens)
    /\ \A n \in 1..Len(inline) :
          /\ inline[n].ref = n
          /\ tokens[n].type = "IngredientToken" =>
                /\ StartsWith(inline[n].text,
                              <<"\\", "t", "e", "x", "t", "b", "f", "{">>
                                \o tokens[n].data.name.s)
                /\ inline[n].text[Len(inline[n].text)] = "}"

HoistedOnly(tokens, pieces) ==
    /\ Hoisted(tokens, pieces, PiecesOfKind(pieces, "ingredient"))
    /\ NotInline(tokens, PiecesOfKind(pieces, "token"))

HoistedAndInline(tokens, pieces) ==
    /\ Hoisted(tokens, pieces, PiecesOfKind(pieces, "ingredient"))
    /\ AlsoInline(tokens, PiecesOfKind(pieces, "token"))

---------------------------------------------------------------------------
(* Properties of the token assembly of _parse_step (SpecStep).             *)

PayloadClasses == {"Ingredient", "Cookware", "Timer", "Comment", "Note"}
TokenClasses ==
    {"TextToken", "IngredientToken", "CookwareToken", "TimerToken", "CommentToken",
     "NoteToken"}

KnownPayloads(es) == \A k \in 1..Len(es) : es[k].data.cls \in PayloadClasses

\* C26: the ValueError "Unknown data type in token parsing" is unreachable:
\* for every paragraph each entry collected from the six matchers carries an
\* Ingredient, Cookware, Timer, Comment or Note, so the isinstance chain
\* never reaches its else branch and every token is of one of the six token
\* classes.
C26_NoUnknownPayload ==
    /\ KnownPayloads(AllMatches(par))
    /\ Parsed => \A k \in 1..Len(step.tokens) : step.tokens[k].type \in TokenClasses

\* A paragraph with a piece of cookware, a comment and an ingredient was
\* assembled into tokens of three classes.
C26_Witness ==
    /\ Parsed /\ Len(AllMatches(par)) = 3
    /\ {step.tokens[k].type : k \in 1..Len(step.tokens)}
          = {"CookwareToken", "CommentToken", "IngredientToken"}

\* C27: the matches of the six matchers never overlap: the spans
\* [start_pos, end_pos) of the tokens of a Step are pairwise disjoint, each
\* token ends at or before the start of the next one, and the cursor of the
\* assembly never moves backwards.
C27_TokensNeverOverlap ==
    Parsed =>
        /\ \A k \in 1..Len(step.tokens) : \A l \in 1..Len(step.tokens) :
              k # l => ~Overlap(step.tokens[k], step.tokens[l])
        /\ \A k \in 1..(Len(step.tokens) - 1) :
              step.tokens[k].end_pos <= step.tokens[k + 1].start_pos

\* C28: the tokens of a Step are in strictly ascending order of start_pos,
\* the TextTokens of the gaps and of the remaining text included.
C28_AscendingStartPos ==
    Parsed =>
        \A k \in 1..(Len(step.tokens) - 1) :
            step.tokens[k].start_pos < step.tokens[k + 1].start_pos

\* A comment, a match found by an earlier loop inside it and the text after
\* that match were assembled in the order of their start offsets.
C28_Witness ==
    /\ Parsed /\ Len(step.tokens) = 3
    /\ step.tokens[1].type = "CommentToken"
    /\ step.tokens[2].type = "IngredientToken"
    /\ step.tokens[2].start_pos < step.tokens[1].end_pos
    /\ step.tokens[3].type = "TextToken"
    /\ step.tokens[1].start_pos < step.tokens[2].start_pos
    /\ step.tokens[2].start_pos < step.tokens[3].start_pos

\* C30: a Step is well formed: it has at least one token; each token has
\* 0 <= start_pos < end_pos <= len(paragraph) and its text is
\* paragraph[start_pos:end_pos]; no TextToken is empty or only white space.
C30_StepWellFormed ==
    Parsed =>
        /\ Len(step.tokens) >= 1
        /\ \A k \in 1..Len(step.tokens) :
              /\ 0 <= step.tokens[k].start_pos
              /\ step.tokens[k].start_pos < step.tokens[k].end_pos
              /\ step.tokens[k].end_pos <= Len(par)
              /\ step.tokens[k].text
                    = Slice(par, step.tokens[k].start_pos, step.tokens[k].end_pos)
              /\ step.tokens[k].type = "TextToken" => ~IsBlank(step.tokens[k].text)

\* Two matches with white space between them: the gap was dropped, so the
\* Step holds the two matches only and the offsets between them belong to no
\* token.
C30_Witness ==
    /\ Parsed /\ Len(step.tokens) = 2
    /\ step.tokens[1].type # "TextToken" /\ step.tokens[2].type # "TextToken"
    /\ step.tokens[1].end_pos < step.tokens[2].start_pos
    /\ step.tokens[2].end_pos = Len(par)

---------------------------------------------------------------------------
(* The timer without a duration in the strict and the lenient parser       *)
(* (SpecTimers).                                                           *)

\* The braced matches of a timer pattern whose braces are empty.
EmptyBraces(ms) ==
    {k \in 1..Len(ms) :
        ~Truthy(ms[k].simple) /\ ~Truthy(ms[k].amount) /\ ~Truthy(ms[k].unit)}

\* The tokenizer made of match m a Timer without duration and unit.
LenientTimer(m) ==
    \E k \in 1..Len(step.tokens) :
        /\ step.tokens[k].type = "TimerToken"
        /\ step.tokens[k].start_pos = m.start /\ step.tokens[k].end_pos = m.end
        /\ step.tokens[k].data =
              Timer(IF Truthy(m.name) THEN PyStr(Strip(m.name.s)) ELSE PyNone,
                    PyNone, PyNone)

\* strict: the matches of parse_stuff's pattern; lenient: those of the
\* tokenizer's timer pattern.
StrictAndLenient(strict, lenient) ==
    /\ (utl.called /\ EmptyBraces(strict) # {}) => utl.raised /\ utl.tokens = <<>>
    /\ Parsed => \A k \in EmptyBraces(lenient) : LenientTimer(lenient[k])

\* C25: for a braced timer with no duration, such as '~{}' or '~rest{}',
\* pycook.utils.parse_stuff fails with a construction error and yields no
\* Timer, and the tokenizer of pycooklang yields, without raising, a Timer
\* whose duration is None and whose unit is None.
C25_StrictAndLenientTimer ==
    StrictAndLenient(UtilsFindIter(par, 0), FindIter("timer_pattern", par, 0))

\* '~x{}' went through both parsers: parse_timer raised, the tokenizer made
\* the Timer named x.
C25_Witness ==
    /\ par = <<"~", "x", "{", "}">>
    /\ utl.called /\ utl.raised
    /\ Parsed /\ Len(step.tokens) = 1
    /\ step.tokens[1].data = Timer(PyStr(<<"x">>), PyNone, PyNone)

---------------------------------------------------------------------------
(* Properties of read_cook (SpecRead).                                     *)

ReadCookEnded == reader.outcome # "-"

\* parse raises on the text: the front-matter block is no mapping.
ParseRaises(t) == ParseMetadata(t).metadata.kind # "dict"

\* The Recipe is complete: every paragraph of the text was taken and became a
\* Section or a Step.
CompleteRecipe ==
    /\ paragraphs = SplitIntoParagraphs(remaining_text)
    /\ index = Len(paragraphs)
    /\ Len(recipe.steps) + Len(recipe.sections) = Len(paragraphs)

\* The title of the Recipe returned for the metadata title mt.
TitleAsStated(mt) ==
    recipe.title = IF Truthy(mt) THEN mt
                   ELSE IF reader.infer_title THEN PyStr(StemTitle(reader.stem))
                   ELSE mt

\* The image is the only key read_cook adds to the metadata.
MetadataAsParsed(m) ==
    /\ [recipe.metadata EXCEPT !.image = PyNone] = m
    /\ Truthy(recipe.metadata.image) <=> (reader.search_image /\ reader.image)

ReturnedAsStated(m) == CompleteRecipe /\ TitleAsStated(m.title) /\ MetadataAsParsed(m)

RaisedOrReturned ==
    /\ reader.outcome = "FileNotFoundError" <=> reader.path = "missing"
    /\ reader.outcome = "ValueError" <=> (reader.path = "file" /\ ParseRaises(reader.text))
    /\ reader.outcome = "Recipe" <=> (reader.path = "file" /\ ~ParseRaises(reader.text))
    /\ reader.outcome = "Recipe" => ReturnedAsStated(ParseMetadata(reader.text).metadata)

\* C23 as stated: read_cook ends in one of three ways and no other:
\* FileNotFoundError when the path does not exist, one ValueError when parse
\* raises, or a complete Recipe, whose title is inferred from the file name
\* only when infer_title is true and the parsed title is empty.
C23_ReadCookThreeOutcomes ==
    ReadCookEnded =>
        /\ reader.outcome \in {"FileNotFoundError", "ValueError", "Recipe"}
        /\ RaisedOrReturned

\* C23 (amended): read_cook ends in one of four ways: FileNotFoundError when
\* the path does not exist; the exception of read_text, as raised, when the
\* path exists but is no file of UTF-8 text; one ValueError when parse
\* raises; or a complete Recipe, whose title is inferred from the file name
\* only when infer_title is true and the parsed title is empty.
C23_ReadCookOutcomes ==
    ReadCookEnded =>
        /\ reader.outcome \in {"FileNotFoundError", "IsADirectoryError",
                               "UnicodeDecodeError", "ValueError", "Recipe"}
        /\ reader.outcome = "IsADirectoryError" <=> reader.path = "directory"
        /\ reader.outcome = "UnicodeDecodeError" <=> reader.path = "undecodable"
        /\ RaisedOrReturned

\* read_cook returned a Recipe whose title comes from the front matter
\* although infer_title was true, with the path of the image in its
\* metadata.
C23_Witness ==
    /\ reader.outcome = "Recipe" /\ reader.infer_title
    /\ recipe.title = PyStr(<<"T">>) /\ recipe.steps # <<>>
    /\ recipe.metadata.image = PyStr(ImagePath(reader.stem))

---------------------------------------------------------------------------
(* Properties of the settings of the Recipes of one parser (SpecSettings) *)

\* The Recipes the parser has returned: the one of the call that has just
\* ended (0) and those of the earlier calls that returned.
Returned == {0} \cup {k \in 1..Len(calls) : calls[k].outcome = "parsed"}

RecipeBefore(k) == IF k = 0 THEN recipe ELSE calls[k].recipe
RecipeAfter(k) == IF k = 0 THEN recipe' ELSE calls'[k].recipe

\* C29: Recipes do not share mutable rendering settings: of the Recipes
\* returned by the calls of parse on one parser, an assignment to
\* settings.ignore_section_depth on one of them changes the settings and the
\* rendered heading levels of that one only.
C29_SettingsNotShared ==
    [][SetIgnoreSectionDepth =>
          Cardinality({k \in Returned :
                          \/ RecipeAfter(k).settings # RecipeBefore(k).settings
                          \/ ToMarkdown(RecipeAfter(k)) # ToMarkdown(RecipeBefore(k))})
              <= 1]_vars

=============================================================================
